---- MODULE Spec2Model ----
(***************************************************************************)
(* A model of the mail organizer's notification-driven service:            *)
(*   - src/src/server.py : the webhook gateway, the renewal endpoint, the  *)
(*     health probe, the background job and its dedup cache;               *)
(*   - src/src/graph.py  : create / renew / renew-all of subscriptions;    *)
(*   - src/main.py       : startup (dependency injection, server thread,   *)
(*     the subscription retry loop, the keep-alive loop).                  *)
(* Time is counted in whole seconds.  Strings stand for Python values:     *)
(* NONE is Python's None (an absent query parameter or dictionary key).    *)
(***************************************************************************)
EXTENDS Integers, Sequences, FiniteSets, TLC

VARIABLES
    processors,       \* server.py:16  TRUE when main.py has injected the four dependencies
    processed_cache,  \* server.py:26  message id -> time.time() of insertion, NoEntry when absent
    clock,            \* what time.time() returns now
    jobs,             \* the background tasks added so far, in the order they were added
    nreq,             \* number of HTTP requests answered so far
    lastReq,          \* the last HTTP request answered
    lastResp,         \* the response it was given
    processCalls,     \* message id -> number of calls of process_emails for it
    renewCalls,       \* number of calls of renew_all_subscriptions made by the renewal endpoint
    subs,             \* the provider's active subscriptions of this credential: id -> days left
    nextSub,          \* the id the provider gives the next subscription it creates
    lastRenew,        \* what the last run of renew_all_subscriptions did
    mainPc,           \* where main() is
    attempt,          \* main.py:217 the loop variable of the retry loop
    sleeps,           \* the delays main() has slept in the retry loop of this run, in order
    createCalls,      \* number of calls of create_subscription made by this run of main()
    subscription,     \* main.py:220 what the last call of create_subscription returned (0: nothing)
    serverThread,     \* main.py:168 the uvicorn thread of this process
    folders,          \* the mailbox's folders, in the order the provider created them
    lists,            \* the account's To Do task lists, in the order the provider created them
    tasks,            \* the tasks the provider holds, in the order it created them
    rjobs,            \* the calls of process_emails made so far, each with its locals
    folderPosts,      \* the create-folder requests issued so far
    listPosts,        \* the create-list requests issued so far
    categories,       \* main.py:145 the category rules load_config() read from config.json
    token_cache,      \* auth.py:44 the token cache of the MSAL application
    auth,             \* caller -> where its call of get_access_token is
    tokenCalls        \* number of calls of get_access_token made so far

vars == <<processors, processed_cache, clock, jobs, nreq, lastReq, lastResp,
          processCalls, renewCalls, subs, nextSub, lastRenew, mainPc, attempt,
          sleeps, createCalls, subscription, serverThread,
          folders, lists, tasks, rjobs, folderPosts, listPosts,
          categories, token_cache, auth, tokenCalls>>

serverVars == <<processors, processed_cache, clock, jobs, nreq, lastReq, lastResp,
                processCalls, renewCalls>>
providerVars == <<subs, nextSub, lastRenew>>
mainVars == <<mainPc, attempt, sleeps, createCalls, subscription, serverThread>>
mailVars == <<folders, lists, tasks, rjobs, folderPosts, listPosts>>
authVars == <<token_cache, auth, tokenCalls>>
envVars == <<categories, authVars>>

----------------------------------------------------------------------------
(* Bounds of the model *)

NumMsgIds == 2
MaxJobs == 3
MaxRecords == 2
MaxRequests == 2
MaxClock == 301
MaxSubs == 2
MaxRouteJobs == 2

(* Program constants *)

DedupWindow == 300
max_retries == 5
base_delay == 5
max_body_char == 15000
max_full_content == 20000
SubscriptionDays == 2

----------------------------------------------------------------------------
(* Values *)

NONE == "None"
SECRET == "secretClientState"
WRONG == "wrongClientState"
EMPTY == ""
TOKEN == "validation-token"

MsgIds == 1 .. NumMsgIds
NoId == 0
NoEntry == -1

(* A notification record of a webhook payload.  obj = FALSE is an element of *)
(* "value" that is not a JSON object (notification.get raises on it).        *)
NonObject == [obj |-> FALSE, clientState |-> NONE, id |-> NoId]
Notification(cs, id) == [obj |-> TRUE, clientState |-> cs, id |-> id]
\* The records the gateway is given: authentic ones with and without a message id,
\* one without clientState, one with a wrong clientState, one that is no object
Records == {Notification(SECRET, 1), Notification(SECRET, NoId),
            Notification(NONE, 1), Notification(WRONG, 1), NonObject}
\* Authentic notifications of messages, as the provider sends them
Deliveries == {Notification(SECRET, id) : id \in MsgIds}

(* The body of a webhook POST, by what the handler's code does with it. *)
BodyKinds == {"invalid_json", "json_scalar", "json_without_value", "value_not_iterable", "value_list"}
Body(kind, value) == [kind |-> kind, value |-> value]
RecordLists == UNION {[1 .. n -> Records] : n \in 0 .. MaxRecords}
Bodies == {Body(k, <<>>) : k \in BodyKinds \ {"value_list"}}
              \cup {Body("value_list", v) : v \in RecordLists}
DeliveryBodies == {Body("value_list", v) : v \in UNION {[1 .. n -> Deliveries] : n \in 1 .. MaxRecords}}

NoRequest == [endpoint |-> "none", token |-> NONE, body |-> Body("invalid_json", <<>>)]
NoResponse == [status |-> 0, text |-> NONE, renewed |-> 0]
Response(status, text, renewed) == [status |-> status, text |-> text, renewed |-> renewed]

----------------------------------------------------------------------------
(* The background job: server.py:31-88 process_notification_job *)

Job(req, notification) ==
    [req |-> req, notification |-> notification, pc |-> "queued", result |-> "",
     current_time |-> 0, scanSize |-> 0, keys_to_remove |-> {}, call |-> 0]

CachedIds == {k \in MsgIds : processed_cache[k] # NoEntry}

\* The job returns: its result is kept, and the time it read (for the properties)
Finish(j, result) == [jobs EXCEPT ![j].pc = "done", ![j].result = result,
                                  ![j].scanSize = 0, ![j].keys_to_remove = {}]

\* A purge that compares the wrong way round: no entry is ever old
Expired_Reversed(current_time, t) == t - current_time > DedupWindow

\* server.py:61 the purge condition of one cache entry
Expired(current_time, t) == current_time - t > DedupWindow

\* Background tasks that all start as soon as they are added
Runnable_Any(j) ==
    /\ j \in DOMAIN jobs
    /\ jobs[j].pc = "queued"

\* BackgroundTasks runs the tasks of one response one after the other (each awaited
\* in turn); tasks of different responses run in different worker threads.
Runnable(j) ==
    /\ j \in DOMAIN jobs
    /\ jobs[j].pc = "queued"
    /\ \A i \in 1 .. (j - 1) : jobs[i].req = jobs[j].req => jobs[i].pc = "done"

\* a job that does not look at the dependencies before it goes on
JobStart_NoDependencyCheck(j) ==
    /\ Runnable(j)
    /\ jobs' = IF jobs[j].notification.id = NoId THEN Finish(j, "no_id")
               ELSE [jobs EXCEPT ![j].pc = "scan", ![j].current_time = clock,
                                 ![j].scanSize = Cardinality(CachedIds)]
    /\ UNCHANGED <<processors, processed_cache, clock, nreq, lastReq, lastResp,
                   processCalls, renewCalls, providerVars, mainVars>>
    /\ UNCHANGED mailVars
    /\ UNCHANGED envVars

\* server.py:38-59: the dependency check, the message id, time.time(), and the
\* creation of the iterator over processed_cache.items()
JobStart(j) ==
    /\ Runnable(j)
    /\ jobs' = IF ~processors THEN Finish(j, "uninitialized")
               ELSE IF jobs[j].notification.id = NoId THEN Finish(j, "no_id")
               ELSE [jobs EXCEPT ![j].pc = "scan", ![j].current_time = clock,
                                 ![j].scanSize = Cardinality(CachedIds)]
    /\ UNCHANGED <<processors, processed_cache, clock, nreq, lastReq, lastResp,
                   processCalls, renewCalls, providerVars, mainVars>>
    /\ UNCHANGED mailVars
    /\ UNCHANGED envVars

\* server.py:61: the list comprehension over the cache ends.  A dictionary whose
\* size changed under the iterator makes it raise RuntimeError, which the job's
\* except clause (server.py:87) catches.
JobScan(j) ==
    /\ j \in DOMAIN jobs
    /\ jobs[j].pc = "scan"
    /\ LET old == {k \in CachedIds : Expired(jobs[j].current_time, processed_cache[k])}
       IN jobs' = IF Cardinality(CachedIds) # jobs[j].scanSize THEN Finish(j, "error")
                  ELSE [jobs EXCEPT ![j].pc = IF old = {} THEN "check" ELSE "del",
                                    ![j].keys_to_remove = old]
    /\ UNCHANGED <<processors, processed_cache, clock, nreq, lastReq, lastResp,
                   processCalls, renewCalls, providerVars, mainVars>>
    /\ UNCHANGED mailVars
    /\ UNCHANGED envVars

\* server.py:62-63: one del processed_cache[k]; a key another job has deleted
\* raises KeyError
JobDel(j) ==
    /\ j \in DOMAIN jobs
    /\ jobs[j].pc = "del"
    /\ \E k \in jobs[j].keys_to_remove :
         IF processed_cache[k] = NoEntry
         THEN /\ jobs' = Finish(j, "error")
              /\ UNCHANGED processed_cache
         ELSE /\ processed_cache' = [processed_cache EXCEPT ![k] = NoEntry]
              /\ jobs' = [jobs EXCEPT ![j].keys_to_remove = @ \ {k},
                                      ![j].pc = IF jobs[j].keys_to_remove = {k}
                                                THEN "check" ELSE "del"]
    /\ UNCHANGED <<processors, clock, nreq, lastReq, lastResp,
                   processCalls, renewCalls, providerVars, mainVars>>
    /\ UNCHANGED mailVars
    /\ UNCHANGED envVars

\* server.py:66-68: the membership test
JobCheck(j) ==
    /\ j \in DOMAIN jobs
    /\ jobs[j].pc = "check"
    /\ jobs' = IF processed_cache[jobs[j].notification.id] # NoEntry
               THEN Finish(j, "duplicate")
               ELSE [jobs EXCEPT ![j].pc = "insert"]
    /\ UNCHANGED <<processors, processed_cache, clock, nreq, lastReq, lastResp,
                   processCalls, renewCalls, providerVars, mainVars>>
    /\ UNCHANGED mailVars
    /\ UNCHANGED envVars

\* server.py:71: processed_cache[message_id] = current_time
JobInsert(j) ==
    /\ j \in DOMAIN jobs
    /\ jobs[j].pc = "insert"
    /\ processed_cache' = [processed_cache EXCEPT
                             ![jobs[j].notification.id] = jobs[j].current_time]
    /\ jobs' = [jobs EXCEPT ![j].pc = "process"]
    /\ UNCHANGED <<processors, clock, nreq, lastReq, lastResp,
                   processCalls, renewCalls, providerVars, mainVars>>
    /\ UNCHANGED mailVars
    /\ UNCHANGED envVars

\* server.py:82-88 and main.py:42-124: process_emails is called for the message;
\* whatever it raises is caught by the job
ProcessOutcomes == {"processed", "process_failed"}
JobProcess(j) ==
    /\ j \in DOMAIN jobs
    /\ jobs[j].pc = "process"
    /\ processCalls' = [processCalls EXCEPT ![jobs[j].notification.id] = @ + 1]
    /\ \E outcome \in ProcessOutcomes : jobs' = Finish(j, outcome)
    /\ UNCHANGED <<processors, processed_cache, clock, nreq, lastReq, lastResp,
                   renewCalls, providerVars, mainVars>>
    /\ UNCHANGED mailVars
    /\ UNCHANGED envVars

JobStep(j) ==
    \/ JobStart(j)
    \/ JobScan(j)
    \/ JobDel(j)
    \/ JobCheck(j)
    \/ JobInsert(j)
    \/ JobProcess(j)

\* The job got past the dedup step: process_emails is or will be called
Passed(job) == job.pc \in {"process", "processing"} \/ job.result \in ProcessOutcomes
Skipped(job) == job.result = "duplicate"
Active(job) == job.pc \notin {"queued", "done"}

\* time.time() advances
TickSteps == {DedupWindow, DedupWindow + 1}
Tick ==
    /\ \E d \in TickSteps : clock + d <= MaxClock /\ clock' = clock + d
    /\ UNCHANGED <<processors, processed_cache, jobs, nreq, lastReq, lastResp,
                   processCalls, renewCalls, providerVars, mainVars>>
    /\ UNCHANGED mailVars
    /\ UNCHANGED envVars

----------------------------------------------------------------------------
(* The webhook gateway: server.py:90-133 webhook *)

\* A check that only asks for a clientState to be present
Authenticated_AnyState(notification) == notification.clientState # NONE

\* server.py:120-121: the clientState check of one record
Authenticated(notification) == notification.clientState = SECRET

\* The records the loop of server.py:112 reaches: those before the first element
\* on which notification.get raises
Reached(value) ==
    LET bad == {i \in DOMAIN value : ~value[i].obj}
        stop == IF bad = {} THEN Len(value) + 1
                ELSE CHOOSE i \in bad : \A k \in bad : i <= k
    IN SubSeq(value, 1, stop - 1)

\* A loop that leaves at the first record it rejects (break for continue)
Dispatched_Break(body) ==
    IF body.kind = "value_list"
    THEN LET v == Reached(body.value)
             rejected == {i \in DOMAIN v : ~Authenticated(v[i])}
             stop == IF rejected = {} THEN Len(v) + 1
                     ELSE CHOOSE i \in rejected : \A k \in rejected : i <= k
         IN SubSeq(v, 1, stop - 1)
    ELSE <<>>

\* server.py:112-126: the notifications handed to background_tasks.add_task
Dispatched(body) ==
    IF body.kind = "value_list" THEN SelectSeq(Reached(body.value), Authenticated)
    ELSE <<>>

\* A handler that also answers 500 to a body without "value"
NotificationStatus_StrictValue(body) ==
    IF body.kind # "value_list" THEN 500
    ELSE IF Len(Reached(body.value)) < Len(body.value) THEN 500
    ELSE 202

\* server.py:107-133: the status of a notification POST
NotificationStatus(body) ==
    IF body.kind \in {"invalid_json", "json_scalar", "value_not_iterable"} THEN 500
    ELSE IF body.kind = "value_list" /\ Len(Reached(body.value)) < Len(body.value) THEN 500
    ELSE 202

\* server.py:100-101: "if validation_token:" (an absent or empty parameter is falsy)
IsHandshake(token) == token \notin {NONE, EMPTY}

\* server.py:99-133: the response of the webhook handler
WebhookResponse(token, body) ==
    IF IsHandshake(token) THEN Response(200, token, 0)
    ELSE Response(NotificationStatus(body), NONE, 0)

\* A handler that goes on to the payload after the handshake echo
WebhookTasks_NoEarlyReturn(token, body) == Dispatched(body)

\* server.py:99-133: the tasks the response carries
WebhookTasks(token, body) ==
    IF IsHandshake(token) THEN <<>> ELSE Dispatched(body)

ValidationTokens == {NONE, EMPTY, TOKEN}

webhook(token, body) ==
    /\ nreq < MaxRequests
    /\ Len(jobs) + Len(WebhookTasks(token, body)) <= MaxJobs
    /\ nreq' = nreq + 1
    /\ lastReq' = [endpoint |-> "webhook", token |-> token, body |-> body]
    /\ lastResp' = WebhookResponse(token, body)
    /\ jobs' = jobs \o [i \in 1 .. Len(WebhookTasks(token, body)) |->
                          Job(nreq + 1, WebhookTasks(token, body)[i])]
    /\ UNCHANGED <<processors, processed_cache, clock, processCalls, renewCalls,
                   providerVars, mainVars>>
    /\ UNCHANGED mailVars
    /\ UNCHANGED envVars

\* server.py:157-160
read_root ==
    /\ nreq < MaxRequests
    /\ nreq' = nreq + 1
    /\ lastReq' = [endpoint |-> "health", token |-> NONE, body |-> Body("invalid_json", <<>>)]
    /\ lastResp' = Response(200, "alive", 0)
    /\ UNCHANGED <<processors, processed_cache, clock, jobs, processCalls, renewCalls,
                   providerVars, mainVars>>
    /\ UNCHANGED mailVars
    /\ UNCHANGED envVars

----------------------------------------------------------------------------
(* The subscription manager: graph.py:329-413 *)

SubIds == 1 .. MaxSubs
ActiveSubs == {s \in SubIds : subs[s] > 0}

\* The provider's answer to GET /subscriptions: the active subscriptions, oldest first
RECURSIVE Ascending(_)
Ascending(S) ==
    IF S = {} THEN <<>>
    ELSE LET m == CHOOSE x \in S : \A y \in S : x <= y
         IN <<m>> \o Ascending(S \ {m})

\* What can happen to one request of the subscription manager
\*   ok            the provider executed it and its reply arrived
\*   http_error    requests raised RequestException, nothing was executed
\*   auth_error    _get_headers raised (graph.py:31, auth.py:80): a plain Exception
\*   malformed     the listed entry has no "id" (graph.py:405 raises KeyError)
ListOutcomes == {"ok", "http_error", "auth_error"}
RenewOutcomes == {"ok", "http_error", "auth_error", "malformed"}

\* graph.py:372-390 renew_subscription: what the call does for one outcome
\*   "renewed"  the PATCH succeeded, the reply is returned
\*   "none"     RequestException is caught, None is returned
\*   "raised"   any other exception leaves the function
renew_subscription(outcome) ==
    IF outcome = "ok" THEN "renewed"
    ELSE IF outcome = "http_error" THEN "none"
    ELSE "raised"

\* graph.py:404-408: the positions of the listing the loop handles before an
\* exception ends it (all of them when none is raised)
LoopEnd(outcomes) ==
    LET raising == {i \in DOMAIN outcomes :
                      outcomes[i] = "malformed" \/ renew_subscription(outcomes[i]) = "raised"}
    IN IF raising = {} THEN Len(outcomes) + 1
       ELSE CHOOSE i \in raising : \A k \in raising : i <= k

\* graph.py:392-413 renew_all_subscriptions, for a listing, the outcome of the
\* listing request and the outcome of each renewal:
\*   with_id    the positions of the listing whose entry has an "id"
\*   attempted  the positions renew_subscription was called for
\*   succeeded  the positions whose renewal the provider executed
\*   returned   the number the method returns
renew_all_subscriptions(listing, listOutcome, outcomes) ==
    IF listOutcome # "ok"
    THEN [listing |-> <<>>, with_id |-> {}, attempted |-> {}, succeeded |-> {},
          returned |-> 0]
    ELSE LET stop == LoopEnd(outcomes)
             called == {i \in DOMAIN listing :
                          i < stop \/ (i = stop /\ outcomes[i] # "malformed")}
             done == {i \in called : renew_subscription(outcomes[i]) = "renewed"}
         IN [listing |-> listing,
             with_id |-> {i \in DOMAIN listing : outcomes[i] # "malformed"},
             attempted |-> called,
             succeeded |-> done,
             returned |-> IF stop <= Len(listing) THEN 0 ELSE Cardinality(done)]

NoRenew == [listing |-> <<>>, with_id |-> {}, attempted |-> {}, succeeded |-> {},
            returned |-> 0]

\* An endpoint that only asks for a clientState parameter to be present
RenewDecision_AnyToken(token, client) ==
    IF token = NONE THEN "unauthorized"
    ELSE IF ~client THEN "uninitialized"
    ELSE "renew"

\* server.py:142-152: what the renewal endpoint decides from the clientState query
\* parameter and processors["graph_client"]
RenewDecision(token, client) ==
    IF token # SECRET THEN "unauthorized"
    ELSE IF ~client THEN "uninitialized"
    ELSE "renew"

\* server.py:135-155 renew_subscriptions, the renewal endpoint
RenewTokens == {NONE, WRONG, SECRET}
renew_subscriptions(token) ==
    /\ nreq < MaxRequests
    /\ nreq' = nreq + 1
    /\ lastReq' = [endpoint |-> "renew", token |-> token, body |-> Body("invalid_json", <<>>)]
    /\ IF RenewDecision(token, processors) = "unauthorized"
       THEN /\ lastResp' = Response(401, "Unauthorized", 0)
            /\ UNCHANGED <<renewCalls, providerVars>>
       ELSE IF RenewDecision(token, processors) = "uninitialized"
       THEN /\ lastResp' = Response(500, "Graph client not initialized", 0)
            /\ UNCHANGED <<renewCalls, providerVars>>
       ELSE \E listOutcome \in ListOutcomes :
            \E outcomes \in [1 .. Cardinality(ActiveSubs) -> RenewOutcomes] :
              LET listing == Ascending(ActiveSubs)
                  run == renew_all_subscriptions(listing, listOutcome, outcomes)
              IN /\ renewCalls' = renewCalls + 1
                 /\ lastRenew' = run
                 /\ subs' = [s \in SubIds |->
                               IF \E i \in run.succeeded : listing[i] = s
                               THEN SubscriptionDays ELSE subs[s]]
                 /\ lastResp' = Response(200, "success", run.returned)
                 /\ UNCHANGED nextSub
    /\ UNCHANGED <<processors, processed_cache, clock, jobs, processCalls, mainVars>>
    /\ UNCHANGED mailVars
    /\ UNCHANGED envVars

\* graph.py:329-370 create_subscription, by what happens to its POST:
\*   created     the provider created the subscription and its reply arrived
\*   reply_lost  the provider created it, requests raised (timeout): None is returned
\*   rejected    the provider refused (HTTP error): None is returned
\*   bad_reply   the provider created it and its reply is JSON without an "id"
\*   auth_error  _get_headers raised: the exception leaves create_subscription
CreateOutcomes == {"created", "reply_lost", "bad_reply", "rejected", "auth_error"}
ProviderExecuted(outcome) == outcome \in {"created", "reply_lost", "bad_reply"}

\* graph.py:361-370: what create_subscription hands to its caller
create_subscription(outcome) ==
    IF outcome = "created" THEN "subscription"
    ELSE IF outcome = "bad_reply" THEN "without_id"
    ELSE IF outcome = "auth_error" THEN "raised"
    ELSE "none"

\* A retry loop that also sleeps after the last attempt
RetryStep_SleepAfterLast(came_back, n) ==
    IF came_back = "subscription" THEN [pc |-> "alive", attempt |-> n, delay |-> 0]
    ELSE IF n < max_retries THEN [pc |-> "attempt", attempt |-> n + 1, delay |-> base_delay * n]
    ELSE [pc |-> "alive", attempt |-> n, delay |-> base_delay * n]

\* main.py:217-234: one pass of the retry loop after create_subscription came back:
\* where main() goes, the next value of attempt, and the delay it sleeps
\* (0: it does not sleep).  A reply without "id" raises KeyError at main.py:223,
\* inside the try, and counts as a failed attempt like None and like an exception.
RetryStep(came_back, n) ==
    IF came_back = "subscription" THEN [pc |-> "alive", attempt |-> n, delay |-> 0]
    ELSE IF n < max_retries THEN [pc |-> "attempt", attempt |-> n + 1, delay |-> base_delay * n]
    ELSE [pc |-> "alive", attempt |-> n, delay |-> 0]

\* main.py:144-211: configuration, dependency injection, the server thread, the
\* notification URL
MainStart(has_target_email, notification_url) ==
    /\ mainPc = "init"
    /\ IF ~has_target_email
       THEN /\ mainPc' = "returned"
            /\ UNCHANGED <<processors, serverThread, attempt>>
       ELSE /\ processors' = TRUE
            /\ serverThread' = "running"
            /\ mainPc' = IF notification_url THEN "attempt" ELSE "alive"
            /\ attempt' = IF notification_url THEN 1 ELSE 0
    /\ UNCHANGED <<processed_cache, clock, jobs, nreq, lastReq, lastResp, processCalls,
                   renewCalls, providerVars, sleeps, createCalls, subscription>>
    /\ UNCHANGED mailVars
    /\ UNCHANGED envVars

\* main.py:217-234: one iteration of the retry loop
MainAttempt(outcome) ==
    /\ mainPc = "attempt"
    /\ ProviderExecuted(outcome) => nextSub <= MaxSubs
    /\ LET step == RetryStep(create_subscription(outcome), attempt)
       IN /\ mainPc' = step.pc
          /\ attempt' = step.attempt
          /\ sleeps' = IF step.delay > 0 THEN Append(sleeps, step.delay) ELSE sleeps
    /\ createCalls' = createCalls + 1
    /\ subscription' = IF create_subscription(outcome) = "subscription" THEN nextSub ELSE 0
    /\ IF ProviderExecuted(outcome)
       THEN /\ subs' = [subs EXCEPT ![nextSub] = SubscriptionDays]
            /\ nextSub' = nextSub + 1
       ELSE UNCHANGED <<subs, nextSub>>
    /\ UNCHANGED <<serverVars, lastRenew, serverThread>>
    /\ UNCHANGED mailVars
    /\ UNCHANGED envVars

\* The process ends (a crash, a redeploy) and is started again: its memory is lost,
\* the provider keeps its subscriptions
Restart ==
    /\ mainPc # "init"
    /\ mainPc' = "init"
    /\ processors' = FALSE
    /\ processed_cache' = [m \in MsgIds |-> NoEntry]
    /\ jobs' = <<>>
    /\ serverThread' = "not_started"
    /\ attempt' = 0
    /\ sleeps' = <<>>
    /\ createCalls' = 0
    /\ subscription' = 0
    /\ UNCHANGED <<clock, nreq, lastReq, lastResp, processCalls, renewCalls, providerVars>>
    /\ UNCHANGED mailVars
    /\ UNCHANGED envVars

\* A day passes at the provider: a subscription not renewed for SubscriptionDays expires
DayPasses ==
    /\ ActiveSubs # {}
    /\ subs' = [s \in SubIds |-> IF subs[s] > 0 THEN subs[s] - 1 ELSE 0]
    /\ UNCHANGED <<serverVars, nextSub, lastRenew, mainVars>>
    /\ UNCHANGED mailVars
    /\ UNCHANGED envVars

----------------------------------------------------------------------------
(* The analysis pipeline: llm.py:54-241 *)

\* Python values of a JSON reply: True and False; NONE is null or an absent key
PyTrue == "True"
PyFalse == "False"

\* Python's truth test of a value (if x:, x if x else y)
Truthy(v) == v \notin {NONE, EMPTY, PyFalse}

\* llm.py:164-170 the keys of the structure the prompt asks for
Keys == {"category", "is_actionable", "task_title", "due_date", "summary"}

\* A parsed JSON value: an object with the keys it has (a key it lacks reads as
\* NONE through .get), or a value that is not an object (a list, a number)
JsonObject(keys, category, is_actionable, task_title, due_date, summary) ==
    [kind |-> "object", keys |-> keys,
     category |-> IF "category" \in keys THEN category ELSE NONE,
     is_actionable |-> IF "is_actionable" \in keys THEN is_actionable ELSE NONE,
     task_title |-> IF "task_title" \in keys THEN task_title ELSE NONE,
     due_date |-> IF "due_date" \in keys THEN due_date ELSE NONE,
     summary |-> IF "summary" \in keys THEN summary ELSE NONE]

JsonArray ==
    [kind |-> "array", keys |-> {}, category |-> NONE, is_actionable |-> NONE,
     task_title |-> NONE, due_date |-> NONE, summary |-> NONE]

\* llm.py:235-241 the value returned when the classification stage fails
Fallback_Actionable ==
    JsonObject(Keys, "Important", PyTrue, NONE, NONE,
               "Error analyzing email (LLM failure).")

Fallback ==
    JsonObject(Keys, "Important", PyFalse, NONE, NONE,
               "Error analyzing email (LLM failure).")

\* What a call of a model can do: raise, or reply.  The content of a
\* classification reply is text that json.loads rejects (json = FALSE, also a
\* reply without content) or the text of the JSON value it parses to.
Raises == [kind |-> "raises", json |-> FALSE, value |-> JsonArray]
NotJson == [kind |-> "reply", json |-> FALSE, value |-> JsonArray]
Reply(value) == [kind |-> "reply", json |-> TRUE, value |-> value]

StageOutcomes == {"raises", "reply"}

\* A text, by where it comes from and its number of characters
Text(src, len) == [src |-> src, len |-> len]
NoText == Text("", 0)

\* llm.py:85-88 _remove_signature_groq that returns nothing when the call fails
remove_signature_groq_Empty(body, sig, reply_len) ==
    IF body.len = 0 THEN Text("empty", 0)
    ELSE IF sig = "raises" THEN Text("empty", 0)
    ELSE Text("cleaned", reply_len)

\* llm.py:54-88 _remove_signature_groq: "" for no body, the stripped reply of the
\* model (reply_len characters), the body itself when the call fails
remove_signature_groq(body, sig, reply_len) ==
    IF body.len = 0 THEN Text("empty", 0)
    ELSE IF sig = "raises" THEN body
    ELSE Text("cleaned", reply_len)

\* llm.py:126 "[Image: image.png] Description: " and llm.py:130
\* "[Image: image.png] (Error generating description)"
DescriptionFrameLen == 32
ErrorDescriptionLen == 49

\* graph.py:314-321 an element of the list of get_attachments: the name of the
\* attachment and whether contentBytes came with it
Image(name, contentDetails) == [name |-> name, contentDetails |-> contentDetails]

\* llm.py:124-130 the entry of one image: its description, or the placeholder
\* when decoding the image or the call of the vision model raises
Described(image, outcome, desc_len) ==
    IF outcome = "raises"
    THEN [src |-> "error", len |-> ErrorDescriptionLen, name |-> image.name]
    ELSE [src |-> "description", len |-> DescriptionFrameLen + desc_len,
          name |-> image.name]

\* the loop of llm.py:106-130 ends at the first image that raises
RECURSIVE describe_images_gemini_Abort(_, _, _)
describe_images_gemini_Abort(image_data_list, img, desc_len) ==
    IF image_data_list = <<>> THEN <<>>
    ELSE IF ~Head(image_data_list).contentDetails
    THEN describe_images_gemini_Abort(Tail(image_data_list), Tail(img), desc_len)
    ELSE IF Head(img) = "raises"
    THEN <<Described(Head(image_data_list), Head(img), desc_len)>>
    ELSE <<Described(Head(image_data_list), Head(img), desc_len)>>
         \o describe_images_gemini_Abort(Tail(image_data_list), Tail(img), desc_len)

\* llm.py:90-132 _describe_images_gemini: the images are taken in order, img[i]
\* is what decoding and describing the i-th image does; an image without
\* contentDetails is passed over (llm.py:108-109), every other image gets its
\* own entry (try/except inside the loop, llm.py:107-130)
RECURSIVE describe_images_gemini(_, _, _)
describe_images_gemini(image_data_list, img, desc_len) ==
    IF image_data_list = <<>> THEN <<>>
    ELSE IF ~Head(image_data_list).contentDetails
    THEN describe_images_gemini(Tail(image_data_list), Tail(img), desc_len)
    ELSE <<Described(Head(image_data_list), Head(img), desc_len)>>
         \o describe_images_gemini(Tail(image_data_list), Tail(img), desc_len)

\* llm.py:199 "\n\n".join(image_descriptions), its length
RECURSIVE JoinLen(_)
JoinLen(texts) ==
    IF texts = <<>> THEN 0
    ELSE IF Len(texts) = 1 THEN texts[1].len
    ELSE texts[1].len + 2 + JoinLen(Tail(texts))

\* llm.py:203-205 the cap of the cleaned body; "\n...(truncated)..." has 18 characters
BodyMarkerLen == 18

truncate_body_AtCap(cleaned_body) ==
    IF cleaned_body.len >= max_body_char
    THEN [src |-> cleaned_body.src, kept |-> max_body_char - 1, marker |-> TRUE,
          len |-> max_body_char - 1 + BodyMarkerLen]
    ELSE [src |-> cleaned_body.src, kept |-> cleaned_body.len, marker |-> FALSE,
          len |-> cleaned_body.len]

truncate_body(cleaned_body) ==
    IF cleaned_body.len > max_body_char
    THEN [src |-> cleaned_body.src, kept |-> max_body_char, marker |-> TRUE,
          len |-> max_body_char + BodyMarkerLen]
    ELSE [src |-> cleaned_body.src, kept |-> cleaned_body.len, marker |-> FALSE,
          len |-> cleaned_body.len]

\* llm.py:210-211 the cap of the assembled text; "\n...(truncated total)..." has
\* 24 characters
TotalMarkerLen == 24

submitted_len_NoCap(total) == total

submitted_len(total) ==
    IF total > max_full_content THEN max_full_content + TotalMarkerLen ELSE total

\* llm.py:207 "Subject: " (9), "\n\nBody:\n" (8), "\n\nImage Descriptions:\n" (22)
SubjectFrameLen == 9
BodyFrameLen == 8
ImagesFrameLen == 22

\* llm.py:198-211 the text given to the classification model: the body as it is
\* placed in it, where the body ends, the length assembled and the length submitted
full_content(subject_len, cleaned_body, image_descriptions) ==
    LET body == truncate_body(cleaned_body)
        body_end == SubjectFrameLen + subject_len + BodyFrameLen + body.len
        total == body_end + ImagesFrameLen + JoinLen(image_descriptions)
    IN  [body |-> body, body_end |-> body_end, assembled |-> total,
         len |-> submitted_len(total)]

\* llm.py:174-241 analyze_email: the three stages; the result is the parsed reply
\* as it is, the fallback when the classification call raises or json.loads raises
analyze_email(subject_len, body, image_data_list, sig, reply_len, img, desc_len, cls) ==
    LET cleaned_body == remove_signature_groq(body, sig, reply_len)
        image_descriptions ==
            IF image_data_list = <<>> THEN <<>>
            ELSE describe_images_gemini(image_data_list, img, desc_len)
    IN  [cleaned_body |-> cleaned_body,
         image_descriptions |-> image_descriptions,
         full_content |-> full_content(subject_len, cleaned_body, image_descriptions),
         result |-> IF cls.kind = "raises" THEN Fallback
                    ELSE IF ~cls.json THEN Fallback
                    ELSE cls.value]

\* dict.get on the analysis (main.py:96-98, 117-118)
IsObject(analysis) == analysis.kind = "object"
HasKeys(analysis) == IsObject(analysis) /\ Keys \subseteq analysis.keys

----------------------------------------------------------------------------
(* The routing step: main.py:30-124 process_emails *)

\* The category rules of config.json.  A folder path is the sequence of its
\* slash-separated segments (what folder_path.split('/') yields)
config ==
    << [name |-> "DIA", folder_name |-> <<"Inbox", "DIA">>],
       [name |-> "Important", folder_name |-> <<"Inbox">>] >>

\* tests/test_main_logic.py:17-22 the configuration of the tests: no rule is
\* named 'Important'
config_tests ==
    << [name |-> "DIA", folder_name |-> <<"Inbox", "DIA">>],
       [name |-> "Social", folder_name |-> <<"Inbox", "Social">>] >>

\* A configuration whose folder path has three segments (graph.py:130-142
\* walks a path of any depth)
config_nested ==
    << [name |-> "DIA", folder_name |-> <<"Inbox", "Projects", "DIA">>],
       [name |-> "Important", folder_name |-> <<"Inbox", "Important">>] >>

\* The configurations the service is run with
Configs == {config, config_tests, config_nested}

\* No folder: None
NoPath == <<>>

\* main.py:30-40 get_folder_name_for_category: the first rule of that exact name
get_folder_name_for_category(category_name, cfg) ==
    IF ~Truthy(category_name) THEN NoPath
    ELSE LET hits == {i \in DOMAIN cfg : cfg[i].name = category_name}
         IN  IF hits = {} THEN NoPath
             ELSE cfg[CHOOSE i \in hits : \A k \in hits : i <= k].folder_name

\* main.py:122 folder_name.split('/')[-1]
Leaf(path) == path[Len(path)]

\* The messages of the mailbox, as get_message returns them (main.py:78-89)
Subjects == <<"Hello", "Invoice">>
SubjectOf(m) == Subjects[((m - 1) % Len(Subjects)) + 1]
SubjectLens == <<5, 7>>
SubjectLen(m) == SubjectLens[((m - 1) % Len(SubjectLens)) + 1]
HasAttachments(m) == m % 2 = 0

\* main.py:116 the title of the task
TaskTitle_NoFallback(task_title, subject) == [prefix |-> EMPTY, text |-> task_title]

TaskTitle(task_title, subject) ==
    IF Truthy(task_title) THEN [prefix |-> EMPTY, text |-> task_title]
    ELSE [prefix |-> "Follow up: ", text |-> subject]

\* main.py:117 f"Source Email: {subject}\nSummary: {summary}"
TaskContent(subject, summary) == [source_email |-> subject, summary |-> summary]

\* main.py:124 the arguments of a call of create_todo_task; NoCall: no call made
TaskCall(title, content, list_name, due_date) ==
    [called |-> TRUE, title |-> title, content |-> content,
     list_name |-> list_name, due_date |-> due_date]

NoCall ==
    [called |-> FALSE, title |-> TaskTitle(NONE, EMPTY),
     content |-> TaskContent(EMPTY, NONE), list_name |-> NONE, due_date |-> NONE]

\* Identifiers the provider gives: a folder's is its position in folders, a
\* list's its position in lists; msgfolderroot is the root (graph.py:131)
msgfolderroot == 0
NoFolderId == -1
NoListId == 0

\* The due dates the classification model is seen to answer, by what the text
\* spells: year, month and day when it has the form digits-digits-digits, no
\* fields when it is other text.  "#20260115" stands for the JSON number
\* 20260115, a value that is not text
JsonNumbers == {"#20260115"}
DueDateTexts ==
    {"2026-01-15", "2026-03-01", "2028-03-01", "2026-01-01", "2026-02-30", "next Friday"}
Spelled(due_date) ==
    CASE due_date = "2026-01-15" -> <<2026, 1, 15>>
      [] due_date = "2026-03-01" -> <<2026, 3, 1>>
      [] due_date = "2028-03-01" -> <<2028, 3, 1>>
      [] due_date = "2026-01-01" -> <<2026, 1, 1>>
      [] due_date = "2026-02-30" -> <<2026, 2, 30>>
      [] OTHER -> <<>>

\* datetime: the proleptic Gregorian calendar
IsLeap(year) == year % 4 = 0 /\ (year % 100 # 0 \/ year % 400 = 0)
DaysInMonth(year, month) ==
    IF month = 2 THEN (IF IsLeap(year) THEN 29 ELSE 28)
    ELSE IF month \in {4, 6, 9, 11} THEN 30 ELSE 31
RECURSIVE DaysBeforeMonth(_, _)
DaysBeforeMonth(year, month) ==
    IF month = 1 THEN 0
    ELSE DaysBeforeMonth(year, month - 1) + DaysInMonth(year, month - 1)
DaysBeforeYear(year) ==
    (year - 1) * 365 + (year - 1) \div 4 - (year - 1) \div 100 + (year - 1) \div 400
toordinal(date) ==
    DaysBeforeYear(date.year) + DaysBeforeMonth(date.year, date.month) + date.day
Years == 2025 .. 2028
fromordinal(n) ==
    CHOOSE date \in [year : Years, month : 1 .. 12, day : 1 .. 31] :
        /\ date.day <= DaysInMonth(date.year, date.month)
        /\ toordinal(date) = n

\* graph.py:279 datetime.strptime(due_date, "%Y-%m-%d"): a date, a ValueError
\* for text that does not match or names no day of the calendar, a TypeError
\* for a value that is not text
TypeError == "TypeError"
ValueError == "ValueError"
NoDate == [year |-> 0, month |-> 0, day |-> 0]
strptime(due_date) ==
    IF due_date \in JsonNumbers THEN [error |-> TypeError, date |-> NoDate]
    ELSE LET f == Spelled(due_date)
         IN  IF f = <<>> THEN [error |-> ValueError, date |-> NoDate]
             ELSE IF f[2] \notin 1 .. 12 THEN [error |-> ValueError, date |-> NoDate]
             ELSE IF f[3] \notin 1 .. DaysInMonth(f[1], f[2])
             THEN [error |-> ValueError, date |-> NoDate]
             ELSE [error |-> "", date |-> [year |-> f[1], month |-> f[2], day |-> f[3]]]

\* graph.py:280-283 two days earlier, at 14:00:00
ReminderDays == 2
reminder_dt_obj(due_dt_obj) ==
    [set |-> TRUE, date |-> fromordinal(toordinal(due_dt_obj) - ReminderDays),
     text |-> NONE, hour |-> 14, minute |-> 0, second |-> 0, timeZone |-> "UTC"]

\* graph.py:260-289 the payload of the create request; raised when building it
\* raises an exception that create_todo_task does not catch (only ValueError is)
NoDateTime == [set |-> FALSE, date |-> NoDate, text |-> NONE, hour |-> 0, minute |-> 0,
               second |-> 0, timeZone |-> ""]
Payload(title, content, due_date) ==
    LET base == [raised |-> FALSE, title |-> title, content |-> content,
                 dueDateTime |-> NoDateTime, reminderDateTime |-> NoDateTime]
    IN  IF ~Truthy(due_date) THEN base
        ELSE LET due == [set |-> TRUE, date |-> NoDate, text |-> due_date, hour |-> 12,
                         minute |-> 0, second |-> 0, timeZone |-> "UTC"]
                 due_dt_obj == strptime(due_date)
             IN  IF due_dt_obj.error = TypeError
                 THEN [base EXCEPT !.raised = TRUE, !.dueDateTime = due]
                 ELSE IF due_dt_obj.error = ValueError
                 THEN [base EXCEPT !.dueDateTime = due]
                 ELSE [base EXCEPT !.dueDateTime = due,
                                   !.reminderDateTime =
                                       reminder_dt_obj(due_dt_obj.date)]

\* One call of process_emails for a message (server.py:82), with its locals and
\* the locals of the client calls it is in
RJob(m) ==
    [message |-> m, job |-> 0, pc |-> "fetch", result |-> "",
     fetched |-> FALSE, auth_failed |-> FALSE, continued |-> FALSE, body |-> NoText,
     image_data |-> <<>>, sig |-> "", reply_len |-> 0, img |-> <<>>, desc_len |-> 0,
     cleaned_body |-> NoText, image_descriptions |-> <<>>,
     prompt |-> full_content(0, NoText, <<>>), cls |-> Raises, analysed |-> FALSE,
     analysis |-> JsonArray,
     folder_name |-> NoPath, move_call |-> NoPath, parts |-> <<>>,
     current_id |-> msgfolderroot, moved |-> NONE, move_request |-> NoFolderId,
     task_call |-> NoCall, list_id |-> NoListId, named_failed |-> FALSE,
     payload |-> Payload("", "", NONE),
     task_request |-> FALSE, attachment_calls |-> 0, moves |-> 0, task_calls |-> 0,
     lookups |-> <<>>, creates |-> <<>>]

Done(job, result) == [job EXCEPT !.pc = "done", !.result = result]

\* main.py:114-124 step 6, up to the first request of create_todo_task
\* (graph.py:243-253)
EnterTask(job) ==
    IF Truthy(job.analysis.is_actionable)
    THEN LET call == TaskCall(TaskTitle(job.analysis.task_title, SubjectOf(job.message)),
                              TaskContent(SubjectOf(job.message), job.analysis.summary),
                              IF job.folder_name # NoPath THEN Leaf(job.folder_name)
                              ELSE NONE,
                              job.analysis.due_date)
         IN  [job EXCEPT !.task_call = call, !.task_calls = @ + 1,
                         !.pc = IF Truthy(call.list_name) THEN "list_get"
                                ELSE "default_get"]
    ELSE Done(job, "finished")

\* main.py:96-112 step 5, up to the first request of move_email (graph.py:106,
\* 130-135).  analysis.get raises on a value that is not an object
EnterRoute(job) ==
    IF ~IsObject(job.analysis) THEN Done(job, "raised")
    ELSE LET folder_name == get_folder_name_for_category(job.analysis.category, categories)
         IN  IF folder_name # NoPath
             THEN [job EXCEPT !.folder_name = folder_name, !.move_call = folder_name,
                              !.parts = folder_name, !.current_id = msgfolderroot,
                              !.pc = "find"]
             ELSE EnterTask([job EXCEPT !.folder_name = NoPath])

\* a job that ends when move_email returns False
AfterMove_StopOnFailure(job, moved) ==
    IF moved = PyFalse THEN Done([job EXCEPT !.moved = moved], "finished")
    ELSE EnterTask([job EXCEPT !.moved = moved])

\* main.py:105-108 move_email returned: the task step follows whatever it returned
AfterMove(job, moved) == EnterTask([job EXCEPT !.moved = moved])

\* What a request to the provider can come to: a reply, an HTTP or network error
\* (requests.exceptions.RequestException), or no request at all because
\* _get_headers could not get a token (auth.py:80 raises Exception)
HttpOutcomes == {"ok", "http_error", "auth_error"}

\* server.py:82 process_notification_job calls process_emails for a message
process_emails(m) ==
    /\ Len(rjobs) < MaxRouteJobs
    /\ rjobs' = Append(rjobs, RJob(m))
    /\ UNCHANGED <<folders, lists, tasks, folderPosts, listPosts>>
    /\ UNCHANGED envVars
    /\ UNCHANGED <<serverVars, providerVars, mainVars>>

\* server.py:82-85 a job calls process_emails with an id that is not the one of
\* its notification
JobCall_OtherMessage(j) ==
    /\ j \in DOMAIN jobs
    /\ jobs[j].pc = "process"
    /\ Len(rjobs) < MaxRouteJobs
    /\ LET other == (jobs[j].notification.id % NumMsgIds) + 1
       IN  /\ rjobs' = Append(rjobs, [RJob(other) EXCEPT !.job = j])
           /\ processCalls' = [processCalls EXCEPT ![other] = @ + 1]
    /\ jobs' = [jobs EXCEPT ![j].pc = "processing", ![j].call = Len(rjobs) + 1]
    /\ UNCHANGED <<processors, processed_cache, clock, nreq, lastReq, lastResp,
                   renewCalls, providerVars, mainVars>>
    /\ UNCHANGED <<folders, lists, tasks, folderPosts, listPosts>>
    /\ UNCHANGED envVars

\* server.py:82-85 the job that passed the dedup step calls process_emails with
\* the id of its notification
JobCall(j) ==
    /\ j \in DOMAIN jobs
    /\ jobs[j].pc = "process"
    /\ Len(rjobs) < MaxRouteJobs
    /\ rjobs' = Append(rjobs, [RJob(jobs[j].notification.id) EXCEPT !.job = j])
    /\ processCalls' = [processCalls EXCEPT ![jobs[j].notification.id] = @ + 1]
    /\ jobs' = [jobs EXCEPT ![j].pc = "processing", ![j].call = Len(rjobs) + 1]
    /\ UNCHANGED <<processors, processed_cache, clock, nreq, lastReq, lastResp,
                   renewCalls, providerVars, mainVars>>
    /\ UNCHANGED <<folders, lists, tasks, folderPosts, listPosts>>
    /\ UNCHANGED envVars

\* server.py:85-88 process_emails returned, or raised an exception that the job
\* catches and logs
JobReturn(j) ==
    /\ j \in DOMAIN jobs
    /\ jobs[j].pc = "processing"
    /\ rjobs[jobs[j].call].pc = "done"
    /\ jobs' = Finish(j, IF rjobs[jobs[j].call].result = "raised" THEN "process_failed"
                         ELSE "processed")
    /\ UNCHANGED <<processors, processed_cache, clock, nreq, lastReq, lastResp,
                   processCalls, renewCalls, providerVars, mainVars>>
    /\ UNCHANGED mailVars
    /\ UNCHANGED envVars

\* History of a call: a request that could not be made for want of a token
\* (auth.py:80), and a request attempted after such a failure
Note(outcome, job) ==
    [job EXCEPT !.continued = @ \/ job.auth_failed,
                !.auth_failed = @ \/ outcome = "auth_error"]

\* main.py:58-65 + graph.py:70-90 get_message, body being the body of the message
RouteFetch_Continue(j, outcome, body) ==
    /\ j \in DOMAIN rjobs
    /\ rjobs[j].pc = "fetch"
    /\ rjobs' = [rjobs EXCEPT ![j] =
                    Note(outcome,
                         IF outcome = "ok"
                         THEN [@ EXCEPT !.fetched = TRUE, !.body = body,
                                        !.pc = IF HasAttachments(rjobs[j].message)
                                               THEN "attachments" ELSE "cleanup"]
                         ELSE IF outcome = "http_error" THEN [@ EXCEPT !.pc = "cleanup"]
                         ELSE Done(@, "raised"))]
    /\ UNCHANGED <<folders, lists, tasks, folderPosts, listPosts>>
    /\ UNCHANGED envVars
    /\ UNCHANGED <<serverVars, providerVars, mainVars>>

RouteFetch(j, outcome, body) ==
    /\ j \in DOMAIN rjobs
    /\ rjobs[j].pc = "fetch"
    /\ rjobs' = [rjobs EXCEPT ![j] =
                    Note(outcome,
                         IF outcome = "ok"
                         THEN [@ EXCEPT !.fetched = TRUE, !.body = body,
                                        !.pc = IF HasAttachments(rjobs[j].message)
                                               THEN "attachments" ELSE "cleanup"]
                         ELSE IF outcome = "http_error" THEN Done(@, "not_found")
                         ELSE Done(@, "raised"))]
    /\ UNCHANGED <<folders, lists, tasks, folderPosts, listPosts>>
    /\ UNCHANGED envVars
    /\ UNCHANGED <<serverVars, providerVars, mainVars>>

\* graph.py:314-321 the message of the runs that do not vary the attachments
\* has one image, with its content
OneImage == <<Image("image.png", TRUE)>>

\* main.py:87-93 the images are described before the signature is removed
RouteAttachments_ToImages(j, outcome, images) ==
    /\ j \in DOMAIN rjobs
    /\ rjobs[j].pc = "attachments"
    /\ rjobs' = [rjobs EXCEPT ![j] =
                    Note(outcome,
                         IF outcome = "ok"
                         THEN [@ EXCEPT !.attachment_calls = @ + 1,
                                        !.image_data = images,
                                        !.pc = IF images # <<>> THEN "images"
                                               ELSE "cleanup"]
                         ELSE IF outcome = "http_error"
                         THEN [@ EXCEPT !.attachment_calls = @ + 1,
                                        !.image_data = <<>>, !.pc = "cleanup"]
                         ELSE Done([@ EXCEPT !.attachment_calls = @ + 1], "raised"))]
    /\ UNCHANGED <<folders, lists, tasks, folderPosts, listPosts>>
    /\ UNCHANGED envVars
    /\ UNCHANGED <<serverVars, providerVars, mainVars>>

\* main.py:87-89 + graph.py:301-327 get_attachments
RouteAttachments(j, outcome, images) ==
    /\ j \in DOMAIN rjobs
    /\ rjobs[j].pc = "attachments"
    /\ rjobs' = [rjobs EXCEPT ![j] =
                    Note(outcome,
                         IF outcome = "ok"
                         THEN [@ EXCEPT !.attachment_calls = @ + 1,
                                        !.image_data = images, !.pc = "cleanup"]
                         ELSE IF outcome = "http_error"
                         THEN [@ EXCEPT !.attachment_calls = @ + 1,
                                        !.image_data = <<>>, !.pc = "cleanup"]
                         ELSE Done([@ EXCEPT !.attachment_calls = @ + 1], "raised"))]
    /\ UNCHANGED <<folders, lists, tasks, folderPosts, listPosts>>
    /\ UNCHANGED envVars
    /\ UNCHANGED <<serverVars, providerVars, mainVars>>

\* main.py:93 + llm.py:189 the first stage of analyze_email: the signature is
\* removed (no call of the model for an empty body)
RouteCleanup(j, sig, reply_len) ==
    /\ j \in DOMAIN rjobs
    /\ rjobs[j].pc = "cleanup"
    /\ LET called == rjobs[j].body.len # 0
           replied == called /\ sig = "reply"
       IN  rjobs' = [rjobs EXCEPT ![j] =
                        [@ EXCEPT !.sig = IF called THEN sig ELSE "skipped",
                                  !.reply_len = IF replied THEN reply_len ELSE 0,
                                  !.cleaned_body = remove_signature_groq(rjobs[j].body, sig,
                                                                         reply_len),
                                  !.pc = IF rjobs[j].image_data # <<>> THEN "images"
                                         ELSE "classify"]]
    /\ UNCHANGED <<folders, lists, tasks, folderPosts, listPosts>>
    /\ UNCHANGED envVars
    /\ UNCHANGED <<serverVars, providerVars, mainVars>>

\* llm.py:193-196 the second stage: the images are described, img[i] being the
\* outcome of the i-th image ("skipped" for an image without contentDetails)
RouteImages(j, img, desc_len) ==
    /\ j \in DOMAIN rjobs
    /\ rjobs[j].pc = "images"
    /\ DOMAIN img = DOMAIN rjobs[j].image_data
    /\ \A i \in DOMAIN img :
          (img[i] = "skipped") <=> ~rjobs[j].image_data[i].contentDetails
    /\ rjobs' = [rjobs EXCEPT ![j] =
                    [@ EXCEPT !.img = img,
                              !.desc_len = IF \E i \in DOMAIN img : img[i] = "reply"
                                           THEN desc_len ELSE 0,
                              !.image_descriptions =
                                  describe_images_gemini(rjobs[j].image_data, img, desc_len),
                              !.pc = "classify"]]
    /\ UNCHANGED <<folders, lists, tasks, folderPosts, listPosts>>
    /\ UNCHANGED envVars
    /\ UNCHANGED <<serverVars, providerVars, mainVars>>

\* llm.py:198-241 the third stage: the text is assembled and classified;
\* main.py:94-112 the routing decision
RouteAnalyze(j, cls) ==
    /\ j \in DOMAIN rjobs
    /\ rjobs[j].pc = "classify"
    /\ LET a == analyze_email(SubjectLen(rjobs[j].message), rjobs[j].body,
                              rjobs[j].image_data, rjobs[j].sig, rjobs[j].reply_len,
                              rjobs[j].img, rjobs[j].desc_len, cls)
       IN  rjobs' = [rjobs EXCEPT ![j] =
                        EnterRoute([@ EXCEPT !.cls = cls, !.analysed = TRUE,
                                             !.prompt = a.full_content,
                                             !.analysis = a.result])]
    /\ UNCHANGED <<folders, lists, tasks, folderPosts, listPosts>>
    /\ UNCHANGED envVars
    /\ UNCHANGED <<serverVars, providerVars, mainVars>>

----------------------------------------------------------------------------
(* The Graph client's folders and task lists: graph.py:92-299 *)

\* graph.py:146-159 _find_child_folder: the first child of that name, None when
\* there is none and when the lookup fails
find_child_folder(parent_id, folder_name, outcome) ==
    IF outcome # "ok" THEN NoFolderId
    ELSE LET hits == {i \in DOMAIN folders : /\ folders[i].parent = parent_id
                                              /\ folders[i].displayName = folder_name}
         IN  IF hits = {} THEN NoFolderId
             ELSE CHOOSE i \in hits : \A k \in hits : i <= k

\* graph.py:142-144 the segment is resolved: on to the next one, or to the move
Advance(job, found_id) ==
    [job EXCEPT !.current_id = found_id, !.parts = Tail(@),
                !.pc = IF Tail(job.parts) = <<>> THEN "move" ELSE "find"]

\* graph.py:135-137 one lookup of _get_folder_id's loop
FolderFind(j, outcome) ==
    /\ j \in DOMAIN rjobs
    /\ rjobs[j].pc = "find"
    /\ LET found_id == find_child_folder(rjobs[j].current_id, Head(rjobs[j].parts), outcome)
       IN  rjobs' = [rjobs EXCEPT ![j] =
                        Note(outcome,
                             IF found_id # NoFolderId
                             THEN Advance([@ EXCEPT !.lookups = Append(@, Head(rjobs[j].parts))],
                                          found_id)
                             ELSE [@ EXCEPT !.lookups = Append(@, Head(rjobs[j].parts)),
                                            !.pc = "create"])]
    /\ UNCHANGED <<folders, lists, tasks, folderPosts, listPosts>>
    /\ UNCHANGED envVars
    /\ UNCHANGED <<serverVars, providerVars, mainVars>>

Exists(parent_id, folder_name) ==
    \E i \in DOMAIN folders : /\ folders[i].parent = parent_id
                              /\ folders[i].displayName = folder_name

\* a walk that goes on to the next segment under the same parent when a
\* folder cannot be created
FolderCreate_Continue(j, outcome) ==
    /\ j \in DOMAIN rjobs
    /\ rjobs[j].pc = "create"
    /\ LET parent_id == rjobs[j].current_id
           folder_name == Head(rjobs[j].parts)
           request == [parent |-> parent_id, displayName |-> folder_name,
                       existed |-> Exists(parent_id, folder_name)]
           logged == [rjobs[j] EXCEPT !.creates =
                         Append(@, [name |-> folder_name, ok |-> outcome = "ok"])]
       IN  /\ folderPosts' = IF outcome = "auth_error" THEN folderPosts
                             ELSE folderPosts \cup {request}
           /\ folders' = IF outcome = "ok"
                         THEN Append(folders, [parent |-> parent_id,
                                               displayName |-> folder_name])
                         ELSE folders
           /\ rjobs' = [rjobs EXCEPT ![j] =
                           Note(outcome,
                                IF outcome = "ok" THEN Advance(logged, Len(folders) + 1)
                                ELSE Advance(logged, parent_id))]
    /\ UNCHANGED <<lists, tasks, listPosts>>
    /\ UNCHANGED envVars
    /\ UNCHANGED <<serverVars, providerVars, mainVars>>

\* graph.py:138-141 + 161-171 _create_child_folder.  The provider creates the
\* folder it is asked for ("ok") or refuses ("http_error"); when the folder could
\* not be created _get_folder_id returns None and move_email False (graph.py:108-110)
FolderCreate(j, outcome) ==
    /\ j \in DOMAIN rjobs
    /\ rjobs[j].pc = "create"
    /\ LET parent_id == rjobs[j].current_id
           folder_name == Head(rjobs[j].parts)
           request == [parent |-> parent_id, displayName |-> folder_name,
                       existed |-> Exists(parent_id, folder_name)]
           logged == [rjobs[j] EXCEPT !.creates =
                         Append(@, [name |-> folder_name, ok |-> outcome = "ok"])]
       IN  /\ folderPosts' = IF outcome = "auth_error" THEN folderPosts
                             ELSE folderPosts \cup {request}
           /\ folders' = IF outcome = "ok"
                         THEN Append(folders, [parent |-> parent_id,
                                               displayName |-> folder_name])
                         ELSE folders
           /\ rjobs' = [rjobs EXCEPT ![j] =
                           Note(outcome,
                                IF outcome = "ok" THEN Advance(logged, Len(folders) + 1)
                                ELSE AfterMove(logged, PyFalse))]
    /\ UNCHANGED <<lists, tasks, listPosts>>
    /\ UNCHANGED envVars
    /\ UNCHANGED <<serverVars, providerVars, mainVars>>

\* graph.py:112-123 the move request of move_email; only a RequestException is
\* caught there, so a failure to get a token leaves process_emails
FolderMove(j, outcome) ==
    /\ j \in DOMAIN rjobs
    /\ rjobs[j].pc = "move"
    /\ rjobs' = [rjobs EXCEPT ![j] =
                    Note(outcome,
                         IF outcome = "ok"
                         THEN AfterMove([@ EXCEPT !.move_request = rjobs[j].current_id,
                                                  !.moves = @ + 1],
                                        PyTrue)
                         ELSE IF outcome = "http_error"
                         THEN AfterMove([@ EXCEPT !.move_request = rjobs[j].current_id,
                                                  !.moves = @ + 1],
                                        PyFalse)
                         ELSE Done(@, "raised"))]
    /\ UNCHANGED <<folders, lists, tasks, folderPosts, listPosts>>
    /\ UNCHANGED envVars
    /\ UNCHANGED <<serverVars, providerVars, mainVars>>

\* graph.py:255-289 the list is resolved: the payload is built, then the request
EnterPost(job, list_id) ==
    LET payload == Payload(job.task_call.title, job.task_call.content,
                           job.task_call.due_date)
    IN  IF payload.raised
        THEN Done([job EXCEPT !.list_id = list_id, !.payload = payload], "raised")
        ELSE [job EXCEPT !.list_id = list_id, !.payload = payload, !.pc = "task_post"]

\* graph.py:185-187 the first list of that display name
FindList(list_name) ==
    LET hits == {i \in DOMAIN lists : lists[i].displayName = list_name}
    IN  IF hits = {} THEN NoListId ELSE CHOOSE i \in hits : \A k \in hits : i <= k

\* graph.py:178-187, 196-200 _get_or_create_task_list_id: the lookup
ListGet(j, outcome) ==
    /\ j \in DOMAIN rjobs
    /\ rjobs[j].pc = "list_get"
    /\ rjobs' = [rjobs EXCEPT ![j] =
                    Note(outcome,
                         IF outcome # "ok"
                         THEN [@ EXCEPT !.named_failed = TRUE, !.pc = "default_get"]
                         ELSE IF FindList(@.task_call.list_name) # NoListId
                         THEN EnterPost(@, FindList(rjobs[j].task_call.list_name))
                         ELSE [@ EXCEPT !.pc = "list_post"])]
    /\ UNCHANGED <<folders, lists, tasks, folderPosts, listPosts>>
    /\ UNCHANGED envVars
    /\ UNCHANGED <<serverVars, providerVars, mainVars>>

\* graph.py:189-200 _get_or_create_task_list_id: the creation
ListPost(j, outcome) ==
    /\ j \in DOMAIN rjobs
    /\ rjobs[j].pc = "list_post"
    /\ LET list_name == rjobs[j].task_call.list_name
           request == [displayName |-> list_name,
                       existed |-> FindList(list_name) # NoListId]
       IN  /\ listPosts' = IF outcome = "auth_error" THEN listPosts
                           ELSE listPosts \cup {request}
           /\ lists' = IF outcome = "ok"
                       THEN Append(lists, [displayName |-> list_name,
                                           wellknownListName |-> "none"])
                       ELSE lists
           /\ rjobs' = [rjobs EXCEPT ![j] =
                           Note(outcome,
                                IF outcome = "ok"
                                THEN EnterPost(@, Len(lists) + 1)
                                ELSE [@ EXCEPT !.named_failed = TRUE, !.pc = "default_get"])]
    /\ UNCHANGED <<folders, tasks, folderPosts>>
    /\ UNCHANGED envVars
    /\ UNCHANGED <<serverVars, providerVars, mainVars>>

\* graph.py:220-221 _get_default_task_list_id that does not look for the flag
get_default_task_list_id_First(outcome) ==
    IF outcome # "ok" THEN NoListId
    ELSE IF lists # <<>> THEN 1
    ELSE NoListId

\* graph.py:202-227 _get_default_task_list_id
get_default_task_list_id(outcome) ==
    IF outcome # "ok" THEN NoListId
    ELSE LET hits == {i \in DOMAIN lists : lists[i].wellknownListName = "default"}
         IN  IF hits # {} THEN CHOOSE i \in hits : \A k \in hits : i <= k
             ELSE IF lists # <<>> THEN 1
             ELSE NoListId

\* graph.py:249-257 the fallback of create_todo_task
DefaultGet(j, outcome) ==
    /\ j \in DOMAIN rjobs
    /\ rjobs[j].pc = "default_get"
    /\ rjobs' = [rjobs EXCEPT ![j] =
                    Note(outcome,
                         IF get_default_task_list_id(outcome) = NoListId
                         THEN Done(@, "no_list")
                         ELSE EnterPost(@, get_default_task_list_id(outcome)))]
    /\ UNCHANGED <<folders, lists, tasks, folderPosts, listPosts>>
    /\ UNCHANGED envVars
    /\ UNCHANGED <<serverVars, providerVars, mainVars>>

\* graph.py:259-299 the create request of create_todo_task.  Its body holds the
\* title, the content and the due date; job is the call that issued it
TaskPost(j, outcome) ==
    /\ j \in DOMAIN rjobs
    /\ rjobs[j].pc = "task_post"
    /\ tasks' = IF outcome = "ok"
                THEN Append(tasks, [list |-> rjobs[j].list_id,
                                    title |-> rjobs[j].payload.title,
                                    content |-> rjobs[j].payload.content,
                                    due_date |-> rjobs[j].task_call.due_date,
                                    dueDateTime |-> rjobs[j].payload.dueDateTime,
                                    reminderDateTime |-> rjobs[j].payload.reminderDateTime,
                                    job |-> j])
                ELSE tasks
    /\ rjobs' = [rjobs EXCEPT ![j] =
                    Note(outcome,
                         IF outcome = "auth_error" THEN Done(@, "raised")
                         ELSE Done([@ EXCEPT !.task_request = TRUE], "finished"))]
    /\ UNCHANGED <<folders, lists, folderPosts, listPosts>>
    /\ UNCHANGED envVars
    /\ UNCHANGED <<serverVars, providerVars, mainVars>>

----------------------------------------------------------------------------
(* Specifications *)

(* auth.py: the access token.  One AuthManager, and one MSAL application
   with its token cache, is shared by main(), the gateway and every job
   (main.py:153-154, 158).  get_access_token takes no lock. *)
MaxCallers == 3
MaxTokenCalls == 4
Callers == 1 .. MaxCallers

\* A thread that is not inside get_access_token
Idle == [pc |-> "idle", result |-> ""]
TokenReplies == {"token", "error"}

\* auth.py:63-70 get_access_token up to the request of a new token: the cache is
\* looked up (acquire_token_silent, then acquire_token_for_client); a token is
\* taken from it (cached) only when it holds one that has not expired,
\* otherwise the token request is sent
get_access_token(c, cached) ==
    /\ c \in Callers
    /\ auth[c].pc = "idle"
    /\ tokenCalls < MaxTokenCalls
    /\ cached => token_cache = "valid"
    /\ auth' = [auth EXCEPT ![c] = IF cached THEN [pc |-> "return", result |-> "token"]
                                   ELSE [pc |-> "request", result |-> ""]]
    /\ tokenCalls' = tokenCalls + 1
    /\ UNCHANGED <<token_cache, categories>>
    /\ UNCHANGED <<serverVars, providerVars, mainVars, mailVars>>

\* auth.py:70 the reply to the token request: a token, which MSAL puts into its
\* cache, or an error
TokenReply(c, reply) ==
    /\ c \in Callers
    /\ auth[c].pc = "request"
    /\ auth' = [auth EXCEPT ![c] = [pc |-> "return", result |-> reply]]
    /\ token_cache' = IF reply = "token" THEN "valid" ELSE token_cache
    /\ UNCHANGED <<tokenCalls, categories>>
    /\ UNCHANGED <<serverVars, providerVars, mainVars, mailVars>>

\* auth.py:73-80 get_access_token returns the token or raises
TokenReturn(c) ==
    /\ c \in Callers
    /\ auth[c].pc = "return"
    /\ auth' = [auth EXCEPT ![c] = Idle]
    /\ UNCHANGED <<token_cache, tokenCalls, categories>>
    /\ UNCHANGED <<serverVars, providerVars, mainVars, mailVars>>

\* the cached token reaches the end of its lifetime
TokenExpires ==
    /\ token_cache = "valid"
    /\ token_cache' = "expired"
    /\ UNCHANGED <<auth, tokenCalls, categories>>
    /\ UNCHANGED <<serverVars, providerVars, mainVars, mailVars>>

Init ==
    /\ processors = FALSE
    /\ processed_cache = [m \in MsgIds |-> NoEntry]
    /\ clock = 0
    /\ jobs = <<>>
    /\ nreq = 0
    /\ lastReq = NoRequest
    /\ lastResp = NoResponse
    /\ processCalls = [m \in MsgIds |-> 0]
    /\ renewCalls = 0
    /\ subs = [s \in SubIds |-> 0]
    /\ nextSub = 1
    /\ lastRenew = NoRenew
    /\ mainPc = "init"
    /\ attempt = 0
    /\ sleeps = <<>>
    /\ createCalls = 0
    /\ subscription = 0
    /\ serverThread = "not_started"
    /\ folders = << [parent |-> msgfolderroot, displayName |-> "Inbox"] >>
    /\ lists = << [displayName |-> "Tasks", wellknownListName |-> "default"] >>
    /\ tasks = <<>>
    /\ rjobs = <<>>
    /\ folderPosts = {}
    /\ listPosts = {}
    /\ categories = config
    /\ token_cache = "none"
    /\ auth = [c \in Callers |-> Idle]
    /\ tokenCalls = 0

\* The gateway: every request the three endpoints can get, and the jobs
Next ==
    \/ MainStart(TRUE, FALSE)
    \/ \E token \in ValidationTokens, body \in Bodies : webhook(token, body)
    \/ \E token \in RenewTokens : renew_subscriptions(token)
    \/ read_root
    \/ \E j \in 1 .. MaxJobs : JobStep(j)
    \/ Tick

Spec == Init /\ [][Next]_vars

\* A sequential run of the jobs: a job takes a step only while no other job is
\* between its first and its last step; the provider delivers authentic
\* notifications of messages
NoOtherActive(j) == \A i \in DOMAIN jobs : i # j => ~Active(jobs[i])

NextSeq ==
    \/ MainStart(TRUE, FALSE)
    \/ \E body \in DeliveryBodies : webhook(NONE, body)
    \/ \E j \in 1 .. MaxJobs : NoOtherActive(j) /\ JobStart(j)
    \/ \E j \in 1 .. MaxJobs : NoOtherActive(j) /\ JobScan(j)
    \/ \E j \in 1 .. MaxJobs : NoOtherActive(j) /\ JobDel(j)
    \/ \E j \in 1 .. MaxJobs : NoOtherActive(j) /\ JobCheck(j)
    \/ \E j \in 1 .. MaxJobs : NoOtherActive(j) /\ JobInsert(j)
    \/ \E j \in 1 .. MaxJobs : NoOtherActive(j) /\ JobProcess(j)
    \/ Tick

SpecSeq == Init /\ [][NextSeq]_vars

\* The subscription manager: startup with its retry loop, restarts of the process,
\* renewal requests, and the provider's expiry of subscriptions
NextSub ==
    \/ \E t \in BOOLEAN, u \in BOOLEAN : MainStart(t, u)
    \/ \E outcome \in CreateOutcomes : MainAttempt(outcome)
    \/ \E token \in RenewTokens : renew_subscriptions(token)
    \/ Restart
    \/ DayPasses

SpecSub == Init /\ [][NextSub]_vars

\* The replies of the classification model: every combination of a category
\* (configured, not configured, null, empty), an is_actionable and a task_title,
\* one with a due date, objects that lack keys, an is_actionable that is not a
\* boolean, a JSON value that is not an object, text that is not JSON, an exception
Categories == {"DIA", "Important", "Unknown", NONE, EMPTY}
Summary == "Summary"

ClassificationOutcomes ==
    {Reply(JsonObject(Keys, c, a, t, NONE, Summary)) :
        <<c, a, t>> \in Categories \X {PyTrue, PyFalse} \X {"Review PhD", NONE}}
    \cup {Reply(JsonObject(Keys, "DIA", PyTrue, EMPTY, "2026-01-15", Summary)),
          Reply(JsonObject({"category"}, "DIA", NONE, NONE, NONE, NONE)),
          Reply(JsonObject({"category", "is_actionable"}, NONE, PyTrue, NONE, NONE, NONE)),
          Reply(JsonObject({}, NONE, NONE, NONE, NONE, NONE)),
          Reply(JsonObject(Keys, NONE, "no", NONE, NONE, Summary)),
          Reply(JsonArray), NotJson, Raises}

\* The texts of the specifications that are about routing: one short body,
\* one reply of the signature model, one description of an image
ShortBodies == {Text("original", 1200)}
ShortReplyLens == {1000}
ShortDescLens == {100}

\* One call of process_emails, on any reply of the classification model and on
\* a mailbox that has the folder and the list of the category or lacks them
InitCall ==
    /\ Init!1 /\ Init!2 /\ Init!3 /\ Init!4 /\ Init!5 /\ Init!6 /\ Init!7 /\ Init!8
    /\ Init!9 /\ Init!10 /\ Init!11 /\ Init!12 /\ Init!13 /\ Init!14 /\ Init!15
    /\ Init!16 /\ Init!17 /\ Init!18
    /\ Init!25 /\ Init!26 /\ Init!27 /\ Init!28
    /\ folders \in {<< [parent |-> msgfolderroot, displayName |-> "Inbox"] >>,
                    << [parent |-> msgfolderroot, displayName |-> "Inbox"],
                       [parent |-> 1, displayName |-> "DIA"] >>}
    /\ lists \in {<<>>,
                  << [displayName |-> "Tasks", wellknownListName |-> "default"] >>,
                  << [displayName |-> "DIA", wellknownListName |-> "none"],
                     [displayName |-> "Tasks", wellknownListName |-> "default"] >>}
    /\ tasks = <<>>
    /\ rjobs = <<>>
    /\ folderPosts = {}
    /\ listPosts = {}

NextCall ==
    \/ \E m \in MsgIds : rjobs = <<>> /\ process_emails(m)
    \/ \E outcome \in HttpOutcomes, body \in ShortBodies : RouteFetch(1, outcome, body)
    \/ \E outcome \in HttpOutcomes : RouteAttachments(1, outcome, OneImage)
    \/ \E sig \in StageOutcomes, n \in ShortReplyLens : RouteCleanup(1, sig, n)
    \/ \E img \in StageOutcomes, n \in ShortDescLens : RouteImages(1, <<img>>, n)
    \/ \E cls \in ClassificationOutcomes : RouteAnalyze(1, cls)
    \/ \E outcome \in HttpOutcomes : FolderFind(1, outcome)
    \/ \E outcome \in HttpOutcomes : FolderCreate(1, outcome)
    \/ \E outcome \in HttpOutcomes : FolderMove(1, outcome)
    \/ \E outcome \in HttpOutcomes : ListGet(1, outcome)
    \/ \E outcome \in HttpOutcomes : ListPost(1, outcome)
    \/ \E outcome \in HttpOutcomes : DefaultGet(1, outcome)
    \/ \E outcome \in HttpOutcomes : TaskPost(1, outcome)

SpecCall == InitCall /\ [][NextCall]_vars

\* The mail the other specifications route: filed under a category or not,
\* with a task or without
RoutedOutcomes ==
    {Reply(JsonObject(Keys, "DIA", PyTrue, "Review PhD", NONE, Summary)),
     Reply(JsonObject(Keys, "DIA", PyFalse, NONE, NONE, Summary)),
     Reply(JsonObject(Keys, NONE, PyTrue, NONE, NONE, Summary))}

\* Sequential runs of process_emails: a call starts when the calls before it have
\* returned (the jobs of one webhook request, server.py:126)
AllReturned == \A i \in DOMAIN rjobs : rjobs[i].pc = "done"

NextRouteSeq ==
    \/ \E m \in MsgIds : AllReturned /\ process_emails(m)
    \/ \E j \in 1 .. MaxRouteJobs, outcome \in HttpOutcomes, body \in ShortBodies :
          RouteFetch(j, outcome, body)
    \/ \E j \in 1 .. MaxRouteJobs, outcome \in HttpOutcomes : RouteAttachments(j, outcome, OneImage)
    \/ \E j \in 1 .. MaxRouteJobs, n \in ShortReplyLens : RouteCleanup(j, "reply", n)
    \/ \E j \in 1 .. MaxRouteJobs, n \in ShortDescLens : RouteImages(j, <<"reply">>, n)
    \/ \E j \in 1 .. MaxRouteJobs, cls \in RoutedOutcomes : RouteAnalyze(j, cls)
    \/ \E j \in 1 .. MaxRouteJobs, outcome \in HttpOutcomes : FolderFind(j, outcome)
    \/ \E j \in 1 .. MaxRouteJobs, outcome \in HttpOutcomes : FolderCreate(j, outcome)
    \/ \E j \in 1 .. MaxRouteJobs, outcome \in HttpOutcomes : FolderMove(j, outcome)
    \/ \E j \in 1 .. MaxRouteJobs, outcome \in HttpOutcomes : ListGet(j, outcome)
    \/ \E j \in 1 .. MaxRouteJobs, outcome \in HttpOutcomes : ListPost(j, outcome)
    \/ \E j \in 1 .. MaxRouteJobs, outcome \in HttpOutcomes : DefaultGet(j, outcome)
    \/ \E j \in 1 .. MaxRouteJobs, outcome \in HttpOutcomes : TaskPost(j, outcome)

SpecRouteSeq == Init /\ [][NextRouteSeq]_vars

\* Concurrent calls of process_emails (the jobs of different webhook requests run
\* on the thread pool at the same time)
\* The lookups and creations of folders and lists answer or fail; their failures
\* for want of a token, which the client treats as any other failure
\* (graph.py:157, 169, 196, 223), are followed in the other specifications
LookupOutcomes == {"ok", "http_error"}

NextRoute ==
    \/ \E m \in MsgIds : process_emails(m)
    \/ \E j \in 1 .. MaxRouteJobs, outcome \in HttpOutcomes, body \in ShortBodies :
          RouteFetch(j, outcome, body)
    \/ \E j \in 1 .. MaxRouteJobs, outcome \in HttpOutcomes : RouteAttachments(j, outcome, OneImage)
    \/ \E j \in 1 .. MaxRouteJobs, n \in ShortReplyLens : RouteCleanup(j, "reply", n)
    \/ \E j \in 1 .. MaxRouteJobs, n \in ShortDescLens : RouteImages(j, <<"reply">>, n)
    \/ \E j \in 1 .. MaxRouteJobs, cls \in RoutedOutcomes : RouteAnalyze(j, cls)
    \/ \E j \in 1 .. MaxRouteJobs, outcome \in LookupOutcomes : FolderFind(j, outcome)
    \/ \E j \in 1 .. MaxRouteJobs, outcome \in LookupOutcomes : FolderCreate(j, outcome)
    \/ \E j \in 1 .. MaxRouteJobs, outcome \in HttpOutcomes : FolderMove(j, outcome)
    \/ \E j \in 1 .. MaxRouteJobs, outcome \in LookupOutcomes : ListGet(j, outcome)
    \/ \E j \in 1 .. MaxRouteJobs, outcome \in LookupOutcomes : ListPost(j, outcome)
    \/ \E j \in 1 .. MaxRouteJobs, outcome \in LookupOutcomes : DefaultGet(j, outcome)
    \/ \E j \in 1 .. MaxRouteJobs, outcome \in HttpOutcomes : TaskPost(j, outcome)

SpecRoute == Init /\ [][NextRoute]_vars

\* One call of process_emails on bodies around the cap of 15,000 characters (an
\* empty body too), replies of the signature model (at most 1,024 tokens) and
\* descriptions of an image short and long
BodyLens == {0, 14000, 15000, 15001, 16000}
ReplyLens == {1000, 4000}
DescLens == {100, 6000}
LLMOutcomes == RoutedOutcomes \cup {Raises}

NextLLM ==
    \/ \E m \in MsgIds : rjobs = <<>> /\ process_emails(m)
    \/ \E outcome \in HttpOutcomes, n \in BodyLens : RouteFetch(1, outcome, Text("original", n))
    \/ \E outcome \in HttpOutcomes : RouteAttachments(1, outcome, OneImage)
    \/ \E sig \in StageOutcomes, n \in ReplyLens : RouteCleanup(1, sig, n)
    \/ \E img \in StageOutcomes, n \in DescLens : RouteImages(1, <<img>>, n)
    \/ \E cls \in LLMOutcomes : RouteAnalyze(1, cls)
    \/ \E outcome \in HttpOutcomes : FolderFind(1, outcome)
    \/ \E outcome \in HttpOutcomes : FolderCreate(1, outcome)
    \/ \E outcome \in HttpOutcomes : FolderMove(1, outcome)
    \/ \E outcome \in HttpOutcomes : ListGet(1, outcome)
    \/ \E outcome \in HttpOutcomes : ListPost(1, outcome)
    \/ \E outcome \in HttpOutcomes : DefaultGet(1, outcome)
    \/ \E outcome \in HttpOutcomes : TaskPost(1, outcome)

SpecLLM == Init /\ [][NextLLM]_vars

\* One call of process_emails for mail that asks for a task, with the due dates
\* the classification model may answer, on accounts that have no list, lists of
\* which none is flagged as the default, or a default list after another list
TaskOutcomes ==
    {Reply(JsonObject(Keys, c, PyTrue, "Review PhD", d, Summary)) :
        <<c, d>> \in {"DIA", NONE} \X (DueDateTexts \cup JsonNumbers \cup {NONE, EMPTY})}

InitTask ==
    /\ Init!1 /\ Init!2 /\ Init!3 /\ Init!4 /\ Init!5 /\ Init!6 /\ Init!7 /\ Init!8
    /\ Init!9 /\ Init!10 /\ Init!11 /\ Init!12 /\ Init!13 /\ Init!14 /\ Init!15
    /\ Init!16 /\ Init!17 /\ Init!18
    /\ Init!25 /\ Init!26 /\ Init!27 /\ Init!28
    /\ folders = << [parent |-> msgfolderroot, displayName |-> "Inbox"] >>
    /\ lists \in {<<>>,
                  << [displayName |-> "Groceries", wellknownListName |-> "none"] >>,
                  << [displayName |-> "Groceries", wellknownListName |-> "none"],
                     [displayName |-> "Tasks", wellknownListName |-> "default"] >>,
                  << [displayName |-> "DIA", wellknownListName |-> "none"],
                     [displayName |-> "Tasks", wellknownListName |-> "default"] >>}
    /\ tasks = <<>>
    /\ rjobs = <<>>
    /\ folderPosts = {}
    /\ listPosts = {}

NextTask ==
    \/ \E m \in MsgIds : rjobs = <<>> /\ process_emails(m)
    \/ \E outcome \in HttpOutcomes, body \in ShortBodies : RouteFetch(1, outcome, body)
    \/ \E outcome \in HttpOutcomes : RouteAttachments(1, outcome, OneImage)
    \/ \E n \in ShortReplyLens : RouteCleanup(1, "reply", n)
    \/ \E n \in ShortDescLens : RouteImages(1, <<"reply">>, n)
    \/ \E cls \in TaskOutcomes : RouteAnalyze(1, cls)
    \/ \E outcome \in HttpOutcomes : FolderFind(1, outcome)
    \/ \E outcome \in HttpOutcomes : FolderCreate(1, outcome)
    \/ \E outcome \in HttpOutcomes : FolderMove(1, outcome)
    \/ \E outcome \in HttpOutcomes : ListGet(1, outcome)
    \/ \E outcome \in HttpOutcomes : ListPost(1, outcome)
    \/ \E outcome \in HttpOutcomes : DefaultGet(1, outcome)
    \/ \E outcome \in HttpOutcomes : TaskPost(1, outcome)

SpecTask == InitTask /\ [][NextTask]_vars

\* The whole path of a notification: the webhook request, the dedup step of its
\* job, the call of process_emails and its return to the job: the jobs of one
\* request, which run one after the other, on mail that is filed and asks for a
\* task and on mail that is left where it is.  The clock stands still, so the
\* purge of the cache finds no entry to delete
JobOutcomes ==
    {Reply(JsonObject(Keys, "DIA", PyTrue, "Review PhD", NONE, Summary)),
     Reply(JsonObject(Keys, NONE, PyFalse, NONE, NONE, Summary))}

NextJob ==
    \/ MainStart(TRUE, FALSE)
    \/ \E body \in DeliveryBodies : nreq = 0 /\ webhook(NONE, body)
    \/ \E j \in 1 .. MaxJobs : JobStart(j)
    \/ \E j \in 1 .. MaxJobs : JobScan(j)
    \/ \E j \in 1 .. MaxJobs : JobCheck(j)
    \/ \E j \in 1 .. MaxJobs : JobInsert(j)
    \/ \E j \in 1 .. MaxJobs : JobCall(j)
    \/ \E j \in 1 .. MaxJobs : JobReturn(j)
    \/ \E c \in 1 .. MaxRouteJobs, outcome \in HttpOutcomes, body \in ShortBodies :
          RouteFetch(c, outcome, body)
    \/ \E c \in 1 .. MaxRouteJobs, outcome \in HttpOutcomes : RouteAttachments(c, outcome, OneImage)
    \/ \E c \in 1 .. MaxRouteJobs, n \in ShortReplyLens : RouteCleanup(c, "reply", n)
    \/ \E c \in 1 .. MaxRouteJobs, n \in ShortDescLens : RouteImages(c, <<"reply">>, n)
    \/ \E c \in 1 .. MaxRouteJobs, cls \in JobOutcomes : RouteAnalyze(c, cls)
    \/ \E c \in 1 .. MaxRouteJobs, outcome \in HttpOutcomes : FolderFind(c, outcome)
    \/ \E c \in 1 .. MaxRouteJobs, outcome \in HttpOutcomes : FolderCreate(c, outcome)
    \/ \E c \in 1 .. MaxRouteJobs, outcome \in HttpOutcomes : FolderMove(c, outcome)
    \/ \E c \in 1 .. MaxRouteJobs, outcome \in HttpOutcomes : ListGet(c, outcome)
    \/ \E c \in 1 .. MaxRouteJobs, outcome \in HttpOutcomes : ListPost(c, outcome)
    \/ \E c \in 1 .. MaxRouteJobs, outcome \in HttpOutcomes : DefaultGet(c, outcome)
    \/ \E c \in 1 .. MaxRouteJobs, outcome \in HttpOutcomes : TaskPost(c, outcome)

SpecJob == Init /\ [][NextJob]_vars

\* One call of process_emails on a message with up to MaxImages image
\* attachments, some of them without content, each image described or failing
\* on its own
MaxImages == 3
ImageNames == <<"image.png", "photo.png", "chart.png">>
ImageName(i) == ImageNames[((i - 1) % Len(ImageNames)) + 1]
AttachmentLists ==
    UNION {{[i \in 1 .. n |-> Image(ImageName(i), f[i])] : f \in [1 .. n -> BOOLEAN]}
           : n \in 0 .. MaxImages}
ImageOutcomes ==
    UNION {[1 .. n -> StageOutcomes \cup {"skipped"}] : n \in 1 .. MaxImages}

NextImages ==
    \/ \E m \in MsgIds : rjobs = <<>> /\ process_emails(m)
    \/ \E outcome \in HttpOutcomes, body \in ShortBodies : RouteFetch(1, outcome, body)
    \/ \E outcome \in HttpOutcomes, images \in AttachmentLists :
          RouteAttachments(1, outcome, images)
    \/ \E sig \in StageOutcomes, n \in ShortReplyLens : RouteCleanup(1, sig, n)
    \/ \E img \in ImageOutcomes, n \in ShortDescLens : RouteImages(1, img, n)
    \/ \E cls \in JobOutcomes \cup {Raises} : RouteAnalyze(1, cls)
    \/ \E outcome \in HttpOutcomes : FolderFind(1, outcome)
    \/ \E outcome \in HttpOutcomes : FolderCreate(1, outcome)
    \/ \E outcome \in HttpOutcomes : FolderMove(1, outcome)
    \/ \E outcome \in HttpOutcomes : ListGet(1, outcome)
    \/ \E outcome \in HttpOutcomes : ListPost(1, outcome)
    \/ \E outcome \in HttpOutcomes : DefaultGet(1, outcome)
    \/ \E outcome \in HttpOutcomes : TaskPost(1, outcome)

SpecImages == Init /\ [][NextImages]_vars

\* One call of process_emails under each of the configurations, the
\* classification failing or not
InitConfig ==
    /\ Init!1 /\ Init!2 /\ Init!3 /\ Init!4 /\ Init!5 /\ Init!6 /\ Init!7 /\ Init!8
    /\ Init!9 /\ Init!10 /\ Init!11 /\ Init!12 /\ Init!13 /\ Init!14 /\ Init!15
    /\ Init!16 /\ Init!17 /\ Init!18 /\ Init!19 /\ Init!20 /\ Init!21 /\ Init!22
    /\ Init!23 /\ Init!24
    /\ categories \in Configs
    /\ Init!26 /\ Init!27 /\ Init!28

ConfigOutcomes == JobOutcomes \cup {Raises, NotJson}

NextConfig ==
    \/ \E m \in MsgIds : rjobs = <<>> /\ process_emails(m)
    \/ \E outcome \in HttpOutcomes, body \in ShortBodies : RouteFetch(1, outcome, body)
    \/ \E outcome \in HttpOutcomes : RouteAttachments(1, outcome, OneImage)
    \/ \E sig \in StageOutcomes, n \in ShortReplyLens : RouteCleanup(1, sig, n)
    \/ \E img \in StageOutcomes, n \in ShortDescLens : RouteImages(1, <<img>>, n)
    \/ \E cls \in ConfigOutcomes : RouteAnalyze(1, cls)
    \/ \E outcome \in HttpOutcomes : FolderFind(1, outcome)
    \/ \E outcome \in HttpOutcomes : FolderCreate(1, outcome)
    \/ \E outcome \in HttpOutcomes : FolderMove(1, outcome)
    \/ \E outcome \in HttpOutcomes : ListGet(1, outcome)
    \/ \E outcome \in HttpOutcomes : ListPost(1, outcome)
    \/ \E outcome \in HttpOutcomes : DefaultGet(1, outcome)
    \/ \E outcome \in HttpOutcomes : TaskPost(1, outcome)

SpecConfig == InitConfig /\ [][NextConfig]_vars

\* The gateway and the jobs ask for the access token at the same time
NextAuth ==
    \/ \E c \in Callers, cached \in BOOLEAN : get_access_token(c, cached)
    \/ \E c \in Callers, reply \in TokenReplies : TokenReply(c, reply)
    \/ \E c \in Callers : TokenReturn(c)
    \/ TokenExpires

SpecAuth == Init /\ [][NextAuth]_vars

----------------------------------------------------------------------------
(* Properties *)

JobsOf(r) == SelectSeq(jobs, LAMBDA job : job.req = r)
SameMessage(a, b) == a.notification.id = b.notification.id
Apart(a, b) == IF a.current_time >= b.current_time
               THEN a.current_time - b.current_time
               ELSE b.current_time - a.current_time

\* C1: in a sequential run, a check of message m is skipped only when a job of m
\* got past the dedup step at most DedupWindow seconds before it (so the first
\* check and a check after the window proceed), two jobs of m that both got
\* past are never less than DedupWindow seconds apart (a second check inside the
\* window is skipped), and a job that got past has recorded m: the entry is in the
\* cache until a job reads a clock more than DedupWindow seconds later.
C1_DedupWindowSequential ==
    \A j \in DOMAIN jobs :
      /\ Skipped(jobs[j]) =>
           \E i \in DOMAIN jobs \ {j} :
             /\ Passed(jobs[i]) /\ SameMessage(jobs[i], jobs[j])
             /\ jobs[j].current_time - jobs[i].current_time \in 0 .. DedupWindow
      /\ Passed(jobs[j]) =>
           /\ \A i \in DOMAIN jobs \ {j} :
                Passed(jobs[i]) /\ SameMessage(jobs[i], jobs[j])
                  => Apart(jobs[i], jobs[j]) >= DedupWindow
           /\ (\A k \in DOMAIN jobs :
                 jobs[k].current_time - jobs[j].current_time <= DedupWindow)
                => processed_cache[jobs[j].notification.id] # NoEntry

\* C1 witness: three finished jobs of one message: the first got past, the second
\* ran less than DedupWindow seconds later and was skipped, the third ran after
\* the window and got past again
C1_Witness ==
    \E i, j, k \in DOMAIN jobs :
      /\ SameMessage(jobs[i], jobs[j]) /\ SameMessage(jobs[j], jobs[k])
      /\ jobs[i].result = "processed" /\ jobs[j].result = "duplicate"
      /\ jobs[k].result = "processed"
      /\ jobs[j].current_time - jobs[i].current_time \in 0 .. (DedupWindow - 1)
      /\ jobs[k].current_time - jobs[i].current_time > DedupWindow

\* C2: of the jobs that handle one message inside one window, at most one gets
\* past the dedup step and calls process_emails
C2_AtMostOnePassPerWindow ==
    \A i, j \in DOMAIN jobs :
      (i # j /\ SameMessage(jobs[i], jobs[j]) /\ Passed(jobs[i]) /\ Passed(jobs[j]))
        => Apart(jobs[i], jobs[j]) > DedupWindow

\* C2 witness: two jobs of one message that read the same clock and are both
\* past their start
C2_Witness ==
    \E i, j \in DOMAIN jobs :
      /\ i # j /\ SameMessage(jobs[i], jobs[j])
      /\ Active(jobs[i]) /\ Active(jobs[j])

\* The records of a payload that carry the secret, in payload order
Authentic(value) == SelectSeq(value, LAMBDA n : n.obj /\ n.clientState = SECRET)
AllObjects(value) == \A i \in DOMAIN value : value[i].obj
IsNotificationPost(req) == req.endpoint = "webhook" /\ req.token = NONE

\* C3: no job exists for a record whose clientState is not the secret, so that
\* every call of process_emails belongs to the job of an authentic record; a
\* payload of records is answered 202 whatever clientState its records carry, and
\* the number of jobs it adds is the number of its records that carry the secret
C3_UnauthenticatedDropped ==
    /\ \A j \in DOMAIN jobs :
         jobs[j].notification.obj /\ jobs[j].notification.clientState = SECRET
    /\ \A m \in MsgIds :
         processCalls[m] = Cardinality({j \in DOMAIN jobs :
                              jobs[j].notification.id = m /\ jobs[j].result \in ProcessOutcomes})
    /\ (IsNotificationPost(lastReq) /\ lastReq.body.kind = "value_list"
          /\ AllObjects(lastReq.body.value))
         => /\ lastResp.status = 202
            /\ Len(JobsOf(nreq)) = Len(Authentic(lastReq.body.value))

\* C3 witness: a payload with a record without the secret and a record with it was
\* answered 202 and its one job has called process_emails
C3_Witness ==
    /\ IsNotificationPost(lastReq) /\ lastReq.body.kind = "value_list"
    /\ Len(lastReq.body.value) = 2
    /\ lastReq.body.value[1].obj /\ lastReq.body.value[1].clientState # SECRET
    /\ lastReq.body.value[2].clientState = SECRET
    /\ lastResp.status = 202
    /\ Len(JobsOf(nreq)) = 1
    /\ JobsOf(nreq)[1].result \in ProcessOutcomes

\* The step that answers a request
Answers(endpoint) == nreq' = nreq + 1 /\ lastReq'.endpoint = endpoint

\* C4 as claimed: every webhook request that carries a validation token parameter
\* is answered 200 with the token as its text and adds no job
C4_AnyTokenEchoed ==
    (lastReq.endpoint = "webhook" /\ lastReq.token # NONE)
      => /\ lastResp.status = 200 /\ lastResp.text = lastReq.token
         /\ Len(JobsOf(nreq)) = 0

\* C4: every webhook request that carries a non-empty validation token is answered
\* 200 with the token as its text, whatever its body is, and nothing else changes:
\* no job is added, and the dedup cache and the call counts stay as they were
C4_HandshakeEchoOnly ==
    [][(Answers("webhook") /\ lastReq'.token \notin {NONE, EMPTY})
         => /\ lastResp' = Response(200, lastReq'.token, 0)
            /\ UNCHANGED <<jobs, processed_cache, processCalls, renewCalls, processors,
                           clock, providerVars, mainVars>>]_vars

\* C4 witness: a handshake whose body holds an authentic record was answered with
\* the token while no job exists
C4_Witness ==
    /\ lastReq.endpoint = "webhook" /\ lastReq.token = TOKEN
    /\ lastReq.body.kind = "value_list" /\ Len(Authentic(lastReq.body.value)) > 0
    /\ lastResp = Response(200, TOKEN, 0)
    /\ jobs = <<>>

\* C5: a notification POST whose body is a list of records is answered 202 in the
\* step that adds one job per record carrying the secret, in payload order, all of
\* them still queued; and no later step that answers no request (a job running,
\* failing or being skipped) changes the response given
C5_DispatchThenAccept ==
    [][/\ (Answers("webhook") /\ IsNotificationPost(lastReq')
             /\ lastReq'.body.kind = "value_list" /\ AllObjects(lastReq'.body.value))
          => /\ lastResp'.status = 202
             /\ jobs' = jobs \o [i \in 1 .. Len(Authentic(lastReq'.body.value)) |->
                                   Job(nreq', Authentic(lastReq'.body.value)[i])]
       /\ nreq' = nreq => lastResp' = lastResp]_vars

\* C5 witness: the response 202 stands while the two jobs of the payload have ended
\* differently, one having called process_emails and one skipped as a duplicate
C5_Witness ==
    /\ IsNotificationPost(lastReq) /\ lastReq.body.kind = "value_list"
    /\ lastResp.status = 202
    /\ Len(JobsOf(nreq)) = 2
    /\ JobsOf(nreq)[1].result = "process_failed"
    /\ JobsOf(nreq)[2].result = "duplicate"

\* A body that is not JSON, or not of the shape the handler reads
Malformed(body) ==
    \/ body.kind \in {"invalid_json", "json_scalar", "value_not_iterable"}
    \/ body.kind = "value_list" /\ ~AllObjects(body.value)

C8_RenewAllIndependent ==
    /\ lastRenew.with_id \subseteq lastRenew.attempted
    /\ lastRenew.returned = Cardinality(lastRenew.succeeded)

\* C8 witness: a run of renew-all over two subscriptions in which the first
\* renewal succeeded and the second was attempted and failed
C8_Witness ==
    /\ Len(lastRenew.listing) = 2
    /\ lastRenew.with_id = {1, 2} /\ lastRenew.attempted = {1, 2}
    /\ lastRenew.succeeded = {1}

\* The delays slept after failed attempts 1 .. n
Backoff(n) == [k \in 1 .. n |-> base_delay * k]

\* C9: startup calls create_subscription at most max_retries times and not again
\* once a call returned a subscription; after failed attempt k < max_retries it has
\* slept base_delay * k, and nothing after the last; whether the attempts failed by
\* returning nothing or by raising, after max_retries failures main() is in its
\* keep-alive loop (it has neither raised nor returned) and the server thread runs
C9_BoundedRetry ==
    /\ createCalls <= max_retries
    /\ mainPc \in {"init", "returned", "attempt", "alive"}
    /\ mainPc = "attempt"
         => /\ subscription = 0 /\ attempt \in 1 .. max_retries
            /\ createCalls = attempt - 1
            /\ sleeps = Backoff(attempt - 1)
    /\ subscription # 0 => mainPc = "alive" /\ sleeps = Backoff(createCalls - 1)
    /\ (mainPc = "alive" /\ createCalls > 0 /\ subscription = 0)
         => /\ createCalls = max_retries
            /\ sleeps = <<5, 10, 15, 20>>
    /\ mainPc \in {"attempt", "alive"} => serverThread = "running"

\* C9 witness: all five attempts failed and main() is in its keep-alive loop
C9_Witness ==
    /\ mainPc = "alive" /\ createCalls = 5 /\ subscription = 0
    /\ sleeps = <<5, 10, 15, 20>>
    /\ serverThread = "running"

\* C10: the provider never holds more than one active subscription of this service
C10_AtMostOneSubscription == Cardinality(ActiveSubs) <= 1

\* C10 witness: a process that was restarted holds a subscription of its own while
\* the one of the previous run is still active
C10_Witness ==
    /\ subscription = 2 /\ createCalls = 1
    /\ subs[1] > 0 /\ subs[2] > 0

----------------------------------------------------------------------------
(* Properties of the analysis pipeline and of the routing step *)

\* The category has a rule; RuleFolder is the folder path of its first rule
Configured(category) == \E i \in DOMAIN config : config[i].name = category
RuleFolder(category) ==
    config[CHOOSE i \in DOMAIN config :
              /\ config[i].name = category
              /\ \A k \in DOMAIN config : config[k].name = category => i <= k].folder_name

\* The tasks the provider holds that call j of process_emails created
TasksOf(j) == {t \in DOMAIN tasks : tasks[t].job = j}

\* The classification stage of the call failed: it raised, or its reply is not JSON
ClassificationFailed(job) == job.cls.kind = "raises" \/ ~job.cls.json

\* C11: analyze_email returns for every outcome of the three stages, and what it
\* returns is an object that has the keys category, is_actionable, task_title,
\* due_date and summary, with a boolean is_actionable
C11_AnalysisAlwaysValid ==
    \A j \in DOMAIN rjobs :
        rjobs[j].analysed
            => /\ HasKeys(rjobs[j].analysis)
               /\ rjobs[j].analysis.is_actionable \in {PyTrue, PyFalse}

\* C11 witness: the classification model replied with a JSON object that has only
\* the key category, and analyze_email has returned
C11_Witness ==
    \E j \in DOMAIN rjobs :
        /\ rjobs[j].analysed
        /\ rjobs[j].cls = Reply(JsonObject({"category"}, "DIA", NONE, NONE, NONE, NONE))
        /\ rjobs[j].analysis.keys = {"category"}

\* C12: when the classification call raises or its reply is not valid JSON, the
\* analysis is the fixed fallback (category "Important", is_actionable false, no
\* task title, no due date, the summary of the failure), and the call of
\* process_emails makes no call of create_todo_task and creates no task
C12_FallbackOnFailure ==
    \A j \in DOMAIN rjobs :
        (rjobs[j].analysed /\ ClassificationFailed(rjobs[j]))
            => /\ rjobs[j].analysis.kind = "object"
               /\ rjobs[j].analysis.keys = Keys
               /\ rjobs[j].analysis.category = "Important"
               /\ rjobs[j].analysis.is_actionable = PyFalse
               /\ rjobs[j].analysis.task_title = NONE
               /\ rjobs[j].analysis.due_date = NONE
               /\ rjobs[j].analysis.summary = "Error analyzing email (LLM failure)."
               /\ ~rjobs[j].task_call.called
               /\ ~rjobs[j].task_request
               /\ rjobs[j].pc \in {"find", "create", "move", "done"}
               /\ TasksOf(j) = {}

\* C12 witness: the reply was not JSON, the message was filed under the folder of
\* "Important" and the call returned without a task
C12_Witness ==
    \E j \in DOMAIN rjobs :
        /\ rjobs[j].cls = NotJson
        /\ rjobs[j].pc = "done" /\ rjobs[j].result = "finished"
        /\ rjobs[j].move_call = <<"Inbox">> /\ rjobs[j].moved = PyTrue
        /\ tasks = <<>>

\* C13: a call of process_emails whose analysis has a configured category with
\* folder path P and is_actionable true calls move_email with P and then
\* create_todo_task once, with the result's task_title as the title (read for a
\* result that has one) and the last segment of P as the list name
C13_MoveThenTask ==
    \A j \in DOMAIN rjobs :
        LET job == rjobs[j]
        IN  (/\ job.pc = "done" /\ job.analysed /\ IsObject(job.analysis)
             /\ Configured(job.analysis.category)
             /\ job.analysis.is_actionable = PyTrue)
                => /\ job.move_call = RuleFolder(job.analysis.category)
                   /\ job.task_call.called
                   /\ Truthy(job.analysis.task_title)
                        => job.task_call.title = [prefix |-> EMPTY,
                                                  text |-> job.analysis.task_title]
                   /\ job.task_call.list_name
                        = Leaf(RuleFolder(job.analysis.category))

\* C13 witness: category "DIA" with folder Inbox/DIA, actionable, title
\* "Review PhD": the message was moved and the task is in the list "DIA"
C13_Witness ==
    \E j \in DOMAIN rjobs :
        /\ rjobs[j].pc = "done" /\ rjobs[j].result = "finished"
        /\ rjobs[j].analysis.category = "DIA"
        /\ rjobs[j].move_call = <<"Inbox", "DIA">> /\ rjobs[j].moved = PyTrue
        /\ rjobs[j].task_call.called
        /\ rjobs[j].task_call.title = [prefix |-> EMPTY, text |-> "Review PhD"]
        /\ rjobs[j].task_call.list_name = "DIA"
        /\ \E t \in TasksOf(j) : lists[tasks[t].list].displayName = "DIA"

\* C14: a call of process_emails calls move_email exactly when the category of
\* the analysis is the name of a rule, and create_todo_task exactly when
\* is_actionable is true
C14_MoveIffCategoryTaskIffActionable ==
    \A j \in DOMAIN rjobs :
        LET job == rjobs[j]
        IN  (job.pc = "done" /\ job.analysed /\ IsObject(job.analysis))
                => /\ job.move_call # NoPath <=> Configured(job.analysis.category)
                   /\ job.task_call.called <=> job.analysis.is_actionable = PyTrue

\* C14 witness: a null category with is_actionable false: neither a move nor a
\* task, and the call returned
C14_Witness ==
    \E j \in DOMAIN rjobs :
        /\ rjobs[j].pc = "done" /\ rjobs[j].result = "finished"
        /\ rjobs[j].analysis.keys = Keys
        /\ rjobs[j].analysis.category = NONE
        /\ rjobs[j].analysis.is_actionable = PyFalse
        /\ rjobs[j].move_call = NoPath /\ ~rjobs[j].task_call.called

\* C15: with is_actionable true and no folder resolved (category null, empty or
\* without a rule) no move is made and create_todo_task is called once, without a
\* list name, titled with the task_title when it is non-empty and otherwise with
\* "Follow up: " and the subject, its content holding the subject and the
\* summary; the call creates at most one task, and in the default list
C15_DefaultListTask ==
    \A j \in DOMAIN rjobs :
        LET job == rjobs[j]
            subject == SubjectOf(job.message)
        IN  (/\ job.analysed /\ IsObject(job.analysis)
             /\ ~Configured(job.analysis.category)
             /\ job.analysis.is_actionable = PyTrue)
                => /\ job.move_call = NoPath /\ job.move_request = NoFolderId
                   /\ job.moved = NONE
                   /\ job.task_call.called
                   /\ job.task_call.list_name = NONE
                   /\ job.task_call.title
                        = IF job.analysis.task_title \notin {NONE, EMPTY}
                          THEN [prefix |-> EMPTY, text |-> job.analysis.task_title]
                          ELSE [prefix |-> "Follow up: ", text |-> subject]
                   /\ job.task_call.content.source_email = subject
                   /\ job.task_call.content.summary = job.analysis.summary
                   /\ job.task_call.due_date = job.analysis.due_date
                   /\ Cardinality(TasksOf(j)) <= 1
                   /\ \A t \in TasksOf(j) :
                         /\ lists[tasks[t].list].wellknownListName = "default"
                         /\ tasks[t].title = job.task_call.title
                         /\ tasks[t].content = job.task_call.content

\* C15 witness: null category, actionable, no task title: the task "Follow up:
\* Hello" is in the default list and nothing was moved
C15_Witness ==
    \E j \in DOMAIN rjobs :
        /\ rjobs[j].pc = "done" /\ rjobs[j].result = "finished"
        /\ rjobs[j].analysis.category = NONE /\ rjobs[j].analysis.task_title = NONE
        /\ rjobs[j].move_call = NoPath
        /\ \E t \in TasksOf(j) :
              /\ tasks[t].title = [prefix |-> "Follow up: ", text |-> "Hello"]
              /\ lists[tasks[t].list].wellknownListName = "default"

\* C16: two calls of process_emails with the same analysis and the same subject
\* decide the same folder path and the same task (title, content, list name, due
\* date), whatever else runs and whatever comes of the move
C16_RoutingDeterministic ==
    \A i \in DOMAIN rjobs, k \in DOMAIN rjobs :
        (/\ rjobs[i].pc = "done" /\ rjobs[k].pc = "done"
         /\ rjobs[i].analysed /\ rjobs[k].analysed
         /\ rjobs[i].analysis = rjobs[k].analysis
         /\ SubjectOf(rjobs[i].message) = SubjectOf(rjobs[k].message))
            => /\ rjobs[i].folder_name = rjobs[k].folder_name
               /\ rjobs[i].task_call = rjobs[k].task_call

\* C16 witness: two calls for the same analysis and subject, the move of one
\* succeeded and the move of the other failed, and both made the same task call
C16_Witness ==
    \E i \in DOMAIN rjobs, k \in DOMAIN rjobs :
        /\ i # k /\ rjobs[i].pc = "done" /\ rjobs[k].pc = "done"
        /\ rjobs[i].analysis = rjobs[k].analysis
        /\ rjobs[i].message = rjobs[k].message
        /\ rjobs[i].moved = PyTrue /\ rjobs[k].moved = PyFalse
        /\ rjobs[i].task_call.called /\ rjobs[i].task_call = rjobs[k].task_call

\* C17: in a sequential run no create-folder request is issued for a segment
\* that exists under its parent when the request is issued
C17_NoCreateForExistingSegment == \A request \in folderPosts : ~request.existed

\* C17 witness: two calls in sequence resolved Inbox/DIA; the first created DIA,
\* the second found it, and nothing else was created
C17_Witness ==
    /\ Len(rjobs) = 2
    /\ \A j \in DOMAIN rjobs : /\ rjobs[j].pc = "done" /\ rjobs[j].moved = PyTrue
                               /\ rjobs[j].move_call = <<"Inbox", "DIA">>
    /\ folderPosts = {[parent |-> 1, displayName |-> "DIA", existed |-> FALSE]}
    /\ Len(folders) = 2

\* C18: the mailbox never has two folders of the same display name under one parent
C18_NoDuplicateSiblings ==
    \A a \in DOMAIN folders, b \in DOMAIN folders :
        (a # b /\ folders[a].parent = folders[b].parent)
            => folders[a].displayName # folders[b].displayName

\* C18 witness: two calls that ran at the same time moved their messages to
\* Inbox/DIA and the mailbox has one folder DIA
C18_Witness ==
    /\ Len(rjobs) = 2
    /\ \A j \in DOMAIN rjobs : /\ rjobs[j].pc = "done" /\ rjobs[j].moved = PyTrue
                               /\ rjobs[j].move_call = <<"Inbox", "DIA">>
    /\ Cardinality({f \in DOMAIN folders : folders[f].displayName = "DIA"}) = 1

\* C19: at most one task list of a display name exists, no create-list request
\* is issued while a list of that name exists, and a task whose named list could
\* not be obtained goes to the default list
C19_ListFindOrCreate ==
    /\ \A a \in DOMAIN lists, b \in DOMAIN lists :
          a # b => lists[a].displayName # lists[b].displayName
    /\ \A request \in listPosts : ~request.existed
    /\ \A j \in DOMAIN rjobs :
          (rjobs[j].named_failed /\ rjobs[j].pc = "task_post")
              => lists[rjobs[j].list_id].wellknownListName = "default"
    /\ \A j \in DOMAIN rjobs :
          rjobs[j].named_failed => rjobs[j].pc \in {"default_get", "task_post", "done"}

\* C19 witness: two calls put their tasks in the one list "DIA", created once
C19_Witness ==
    /\ Len(tasks) = 2
    /\ \A t \in DOMAIN tasks : lists[tasks[t].list].displayName = "DIA"
    /\ Cardinality({l \in DOMAIN lists : lists[l].displayName = "DIA"}) = 1
    /\ listPosts = {[displayName |-> "DIA", existed |-> FALSE]}

\* The body of a task records the id of the message it was created for
RecordsMessage(content, m) ==
    "message_id" \in DOMAIN content /\ content.message_id = m

\* C20: every task the provider holds records the id of the message it was
\* created for, and no list holds two tasks created for the same message
C20_TaskPerMessage ==
    /\ \A t \in DOMAIN tasks :
          RecordsMessage(tasks[t].content, rjobs[tasks[t].job].message)
    /\ \A t \in DOMAIN tasks, u \in DOMAIN tasks :
          (t # u /\ tasks[t].list = tasks[u].list)
              => rjobs[tasks[t].job].message # rjobs[tasks[u].job].message

\* C20 witness: two calls of process_emails for the same message have each
\* created a task in the same list
C20_Witness ==
    \E t \in DOMAIN tasks, u \in DOMAIN tasks :
        /\ t # u /\ tasks[t].list = tasks[u].list
        /\ rjobs[tasks[t].job].message = rjobs[tasks[u].job].message
        /\ tasks[t].title = tasks[u].title

\* C21: a cleaned body of more than 15,000 characters is placed in the text for
\* the classification model as its first 15,000 characters followed by the
\* marker, a cleaned body of at most 15,000 characters is placed there whole, and
\* the cut of the assembled text falls after the body
C21_BodyCap ==
    \A j \in DOMAIN rjobs :
        LET job == rjobs[j]
            n == job.cleaned_body.len
            placed == job.prompt.body
        IN  job.analysed =>
              /\ placed.src = job.cleaned_body.src
              /\ n > 15000 => /\ placed.kept = 15000 /\ placed.marker
                              /\ placed.len = 15000 + BodyMarkerLen
              /\ n <= 15000 => /\ placed.kept = n /\ ~placed.marker /\ placed.len = n
              /\ job.prompt.body_end <= max_full_content

\* C21 witness: a cleaned body of 16,000 characters was cut to 15,000 and marked
C21_Witness ==
    \E j \in DOMAIN rjobs :
        /\ rjobs[j].analysed
        /\ rjobs[j].cleaned_body.len = 16000
        /\ rjobs[j].prompt.body.kept = 15000
        /\ rjobs[j].prompt.body.marker

\* C22 as stated: the text submitted to the classification model has at most
\* 20,000 characters
C22_PromptAtMost20000 ==
    \A j \in DOMAIN rjobs : rjobs[j].analysed => rjobs[j].prompt.len <= 20000

\* C22: the text submitted to the classification model is the assembled text
\* when that has at most 20,000 characters, and otherwise its first 20,000
\* characters followed by the marker of 24 characters: at most 20,024 characters
C22_PromptAtMostCapPlusMarker ==
    \A j \in DOMAIN rjobs :
        LET prompt == rjobs[j].prompt
        IN  rjobs[j].analysed =>
              /\ prompt.len <= 20000 + 24
              /\ prompt.assembled <= 20000 => prompt.len = prompt.assembled
              /\ prompt.assembled > 20000 => prompt.len = 20000 + 24

\* C22 witness: a marked body and a long description of an image, more than
\* 20,000 characters together, were cut and submitted
C22_Witness ==
    \E j \in DOMAIN rjobs :
        /\ rjobs[j].analysed
        /\ rjobs[j].prompt.assembled > 20000
        /\ rjobs[j].prompt.body.marker
        /\ rjobs[j].image_descriptions # <<>>

\* C24: a call of create_todo_task without a list name, or whose named list
\* could not be obtained, posts its task to the list flagged as the default and,
\* when no list is flagged, to the first list; when it resolves no list it makes
\* no create request and returns nothing
C24_DefaultListFallback ==
    \A j \in DOMAIN rjobs :
        LET job == rjobs[j]
            flagged == {l \in DOMAIN lists : lists[l].wellknownListName = "default"}
            posted == (IF job.pc = "task_post" \/ job.task_request THEN {job.list_id}
                       ELSE {})
                          \cup {tasks[t].list : t \in TasksOf(j)}
        IN  (job.task_call.called /\ (~Truthy(job.task_call.list_name) \/ job.named_failed))
              => /\ \A l \in posted :
                       /\ l \in DOMAIN lists
                       /\ \/ lists[l].wellknownListName = "default"
                          \/ flagged = {} /\ l = 1
                 /\ (job.pc = "done" /\ job.list_id = NoListId) =>
                       /\ job.result = "no_list"
                       /\ ~job.task_request
                       /\ TasksOf(j) = {}
                 /\ lists = <<>> => posted = {}

\* C24 witness: the list "DIA" could not be obtained and the task is in the list
\* flagged as the default, which is not the first list of the account
C24_Witness ==
    \E j \in DOMAIN rjobs :
        /\ rjobs[j].task_call.list_name = "DIA"
        /\ rjobs[j].named_failed
        /\ rjobs[j].task_request
        /\ \E t \in TasksOf(j) :
              /\ tasks[t].list = 2
              /\ lists[2].wellknownListName = "default"
              /\ lists[1].wellknownListName # "default"

\* The day before a day of the calendar
PrevDay(date) ==
    IF date.day > 1 THEN [date EXCEPT !.day = @ - 1]
    ELSE IF date.month > 1
    THEN [date EXCEPT !.month = @ - 1, !.day = DaysInMonth(date.year, date.month - 1)]
    ELSE [year |-> date.year - 1, month |-> 12, day |-> 31]

\* The create request of a call that got as far as the request, and of every
\* task created
RequestsOf(j) ==
    (IF rjobs[j].pc = "task_post" \/ rjobs[j].task_request THEN {rjobs[j].payload} ELSE {})
        \cup {[raised |-> FALSE, title |-> tasks[t].title, content |-> tasks[t].content,
               dueDateTime |-> tasks[t].dueDateTime,
               reminderDateTime |-> tasks[t].reminderDateTime] : t \in TasksOf(j)}

\* What C23 says of one call of create_todo_task
DueDateCarried(j) ==
        LET job == rjobs[j]
            d == job.task_call.due_date
        IN  job.task_call.called =>
              /\ ~job.payload.raised
              /\ \A request \in RequestsOf(j) :
                    IF ~Truthy(d)
                    THEN ~request.dueDateTime.set /\ ~request.reminderDateTime.set
                    ELSE /\ request.dueDateTime.set
                         /\ request.dueDateTime.text = d
                         /\ request.dueDateTime.hour = 12
                         /\ request.dueDateTime.minute = 0
                         /\ request.dueDateTime.second = 0
                         /\ request.dueDateTime.timeZone = "UTC"
                         /\ IF strptime(d).error # ""
                            THEN ~request.reminderDateTime.set
                            ELSE /\ request.reminderDateTime.set
                                 /\ request.reminderDateTime.date
                                       = PrevDay(PrevDay(strptime(d).date))
                                 /\ request.reminderDateTime.hour = 14
                                 /\ request.reminderDateTime.minute = 0
                                 /\ request.reminderDateTime.second = 0
                                 /\ request.reminderDateTime.timeZone = "UTC"

\* C23: a create request for a due date carries it, at 12:00:00 UTC, and, when
\* it is a date, a reminder two days earlier at 14:00:00 UTC; when the due date
\* cannot be parsed the call still goes on to the create request, which lacks only
\* the reminder; without a due date the request has neither field
C23_DueDateAndReminder == \A j \in DOMAIN rjobs : DueDateCarried(j)

\* C23 witness: create_todo_task was called with the JSON number 20260115 as
\* the due date, resolved its list and ended in the exception of strptime: no
\* create request was made
C23_Witness ==
    \E j \in DOMAIN rjobs :
        /\ rjobs[j].task_call.called
        /\ rjobs[j].task_call.due_date \in JsonNumbers
        /\ rjobs[j].list_id # NoListId
        /\ rjobs[j].payload.raised
        /\ rjobs[j].pc = "done" /\ rjobs[j].result = "raised"
        /\ ~rjobs[j].task_request /\ tasks = <<>>

\* The calls of process_emails a job has made
CallsOf(j) == {c \in DOMAIN rjobs : rjobs[c].job = j}

\* C25: a job calls process_emails at most once, only after it passed the dedup
\* step, and for the message id of its notification; the call issues at most one
\* move request and at most one call of create_todo_task, which creates at most
\* one task
C25_OneRoutingDecision ==
    /\ \A c \in DOMAIN rjobs : rjobs[c].job \in DOMAIN jobs
    /\ \A j \in DOMAIN jobs :
          /\ Cardinality(CallsOf(j)) <= 1
          /\ CallsOf(j) # {} => Passed(jobs[j])
          /\ \A c \in CallsOf(j) :
                /\ rjobs[c].message = jobs[j].notification.id
                /\ rjobs[c].moves <= 1
                /\ rjobs[c].task_calls <= 1
                /\ Cardinality(TasksOf(c)) <= 1

\* C25 witness: the job of a notification passed the dedup step and returned,
\* having moved the message of the notification once and created one task
C25_Witness ==
    \E j \in DOMAIN jobs :
        /\ jobs[j].result = "processed"
        /\ \E c \in CallsOf(j) :
              /\ rjobs[c].message = jobs[j].notification.id
              /\ rjobs[c].moves = 1 /\ rjobs[c].moved = PyTrue
              /\ rjobs[c].task_calls = 1
              /\ Cardinality(TasksOf(c)) = 1

EarlierOfRequest(j) == {i \in 1 .. (j - 1) : jobs[i].req = jobs[j].req}

Stages == <<"fetch", "attachments", "cleanup", "images", "classification", "move", "task">>
StageOf(pc) ==
    CASE pc = "classify" -> "classification"
      [] pc \in {"find", "create", "move"} -> "move"
      [] pc \in {"list_get", "list_post", "default_get", "task_post"} -> "task"
      [] OTHER -> pc
Pos(stage) == CHOOSE n \in DOMAIN Stages : Stages[n] = stage

\* The step t may follow the step s: it is a later step, and the steps between
\* them are those the message does without (attachments and images when it has
\* none, the move when no folder is resolved)
Follows(s, t) ==
    /\ Pos(s) < Pos(t)
    /\ t = "attachments" => s = "fetch"
    /\ t = "cleanup" => s \in {"fetch", "attachments"}
    /\ t = "images" => s = "cleanup"
    /\ t = "classification" => s \in {"cleanup", "images"}
    /\ t = "move" => s = "classification"
    /\ t = "task" => s \in {"classification", "move"}

\* C27: process_emails is called for a message when its job has made the dedup
\* check and recorded the message, it starts with the fetch, and every step of
\* a message that is not its last is followed by a later step in the order
\* fetch, attachments, cleanup, images, classification, move, task
C27_StageOrder ==
    [][\A c \in DOMAIN rjobs' :
          IF c \notin DOMAIN rjobs
          THEN /\ rjobs'[c].pc = "fetch"
               /\ rjobs'[c].job # 0 =>
                     /\ jobs[rjobs'[c].job].pc = "process"
                     /\ processed_cache[rjobs'[c].message] # NoEntry
          ELSE LET s == rjobs[c].pc
                   t == rjobs'[c].pc
               IN  /\ s = "done" => t = "done"
                   /\ (s # "done" /\ t # "done" /\ StageOf(s) # StageOf(t))
                         => Follows(StageOf(s), StageOf(t))]_vars

\* C27 witness: a message with an image went through every step: fetched by
\* its job, image described, classified, moved, and its task created
C27_Witness ==
    \E c \in DOMAIN rjobs :
        /\ rjobs[c].job # 0 /\ jobs[rjobs[c].job].result = "processed"
        /\ rjobs[c].attachment_calls = 1
        /\ rjobs[c].cleaned_body.src = "cleaned"
        /\ rjobs[c].image_descriptions # <<>>
        /\ rjobs[c].analysed
        /\ rjobs[c].moves = 1
        /\ rjobs[c].task_request

\* C28: a call of process_emails whose fetch of the message failed has ended:
\* nothing was analysed, no attachment was asked for, no move and no task were
\* requested, and its job ends as any other job
C28_FetchFailureEndsJob ==
    \A c \in DOMAIN rjobs :
        LET job == rjobs[c]
        IN  (~job.fetched /\ job.pc # "fetch") =>
              /\ job.pc = "done" /\ job.result \in {"not_found", "raised"}
              /\ job.attachment_calls = 0 /\ job.image_data = <<>>
              /\ job.sig = "" /\ job.img = <<>> /\ ~job.analysed
              /\ job.move_call = NoPath /\ job.moves = 0
              /\ job.task_calls = 0 /\ ~job.task_request /\ TasksOf(c) = {}
              /\ job.folder_name = NoPath
              /\ job.job # 0 =>
                    /\ jobs[job.job].pc \in {"processing", "done"}
                    /\ jobs[job.job].pc = "done" =>
                          jobs[job.job].result
                              = IF job.result = "raised" THEN "process_failed"
                                ELSE "processed"

\* C28 witness: the provider answered the fetch with an error; the call and
\* its job have ended and nothing else was done for the message
C28_Witness ==
    \E c \in DOMAIN rjobs :
        /\ ~rjobs[c].fetched /\ rjobs[c].result = "not_found"
        /\ rjobs[c].job # 0 /\ jobs[rjobs[c].job].result = "processed"
        /\ tasks = <<>> /\ folderPosts = {}

\* C29: a call of process_emails in which a request to the provider failed for
\* want of a token has ended with that exception, having attempted no request
\* after it, and its job has caught the exception
C29_AuthFailureAbortsJob ==
    \A c \in DOMAIN rjobs :
        LET job == rjobs[c]
        IN  job.auth_failed =>
              /\ job.pc = "done" /\ job.result = "raised"
              /\ ~job.continued
              /\ (job.job # 0 /\ jobs[job.job].pc = "done")
                    => jobs[job.job].result = "process_failed"

\* C29 witness: the lookup of the folder "DIA" failed for want of a token; the
\* call went on, created the folder and moved the message into it
C29_Witness ==
    \E c \in DOMAIN rjobs :
        /\ rjobs[c].job # 0
        /\ rjobs[c].auth_failed /\ rjobs[c].continued
        /\ folderPosts # {}
        /\ rjobs[c].moved = PyTrue

\* C30: when the call of the signature model fails, the cleaned body is the
\* body of the message as it was fetched, the call does not end there, the
\* images (if any) are described, and the text classified holds that body up to
\* the cap of 15,000 characters
C30_CleanupFailureKeepsBody ==
    \A j \in DOMAIN rjobs :
        LET job == rjobs[j]
        IN  job.sig = "raises" =>
              /\ job.cleaned_body = job.body
              /\ job.pc \notin {"fetch", "attachments", "cleanup"}
              /\ job.pc = "done" => job.analysed
              /\ job.analysed =>
                    /\ job.image_data # <<>> =>
                          /\ job.img \in [1 .. 1 -> StageOutcomes]
                          /\ Len(job.image_descriptions) = Len(job.image_data)
                    /\ job.prompt.body.src = "original"
                    /\ job.prompt.body.kept
                          = IF job.body.len > 15000 THEN 15000 ELSE job.body.len
                    /\ job.prompt.body.marker = (job.body.len > 15000)

\* C30 witness: the signature model failed on a body of 16,000 characters; the
\* image was described and the original body, cut at the cap, was classified
C30_Witness ==
    \E j \in DOMAIN rjobs :
        /\ rjobs[j].sig = "raises"
        /\ rjobs[j].body.len = 16000
        /\ rjobs[j].image_descriptions # <<>>
        /\ rjobs[j].analysed
        /\ rjobs[j].cls.kind = "reply"
        /\ rjobs[j].prompt.body = [src |-> "original", kept |-> 15000, marker |-> TRUE,
                                   len |-> 15018]

\* The images of a list that came with their content, in the order of the list
WithContent(image_data_list) ==
    SelectSeq(image_data_list, LAMBDA image : image.contentDetails)

\* What describing them did, in the same order
OutcomesOf(img) == SelectSeq(img, LAMBDA outcome : outcome # "skipped")

\* C31: the image description stage treats each attachment on its own: once
\* the stage has run, image_descriptions holds exactly one entry for each
\* attachment that came with a base64 payload, in the order of the
\* attachments; the entry of an attachment whose description failed is the
\* placeholder, the entry of every other attachment is its description, and
\* the job goes on to the classification
C31_OneEntryPerImage ==
    \A j \in DOMAIN rjobs :
        LET job == rjobs[j]
            images == WithContent(job.image_data)
            outcomes == OutcomesOf(job.img)
        IN  (job.image_data # <<>> /\ job.pc \notin {"fetch", "attachments", "cleanup",
                                                       "images"}) =>
              /\ Len(job.image_descriptions) = Len(images)
              /\ Len(outcomes) = Len(images)
              /\ \A k \in 1 .. Len(images) :
                    /\ job.image_descriptions[k].name = images[k].name
                    /\ job.image_descriptions[k].src
                          = IF outcomes[k] = "raises" THEN "error" ELSE "description"
              /\ job.pc # "classify" => job.analysed

\* C31 witness: of three images with content the second could not be
\* described; the first and the third have their descriptions, the second the
\* placeholder, and the message was classified
C31_Witness ==
    \E j \in DOMAIN rjobs :
        /\ Len(rjobs[j].image_data) = 3
        /\ \A i \in 1 .. 3 : rjobs[j].image_data[i].contentDetails
        /\ rjobs[j].img = <<"reply", "raises", "reply">>
        /\ [k \in 1 .. 3 |-> rjobs[j].image_descriptions[k].src]
              = <<"description", "error", "description">>
        /\ [k \in 1 .. 3 |-> rjobs[j].image_descriptions[k].name] = ImageNames
        /\ rjobs[j].analysed
        /\ rjobs[j].cls.kind = "reply"

\* C32: after a failure of the classification stage the message is not lost:
\* under every configuration the service runs with, the job that got the
\* fallback result asks for the move of the message into the folder of the
\* 'Important' category
C32_FallbackFilesIntoImportant ==
    \A j \in DOMAIN rjobs :
        LET job == rjobs[j]
        IN  (job.analysed /\ ClassificationFailed(job)) =>
              /\ job.analysis = Fallback
              /\ job.folder_name # NoPath
              /\ job.folder_name = get_folder_name_for_category("Important", categories)
              /\ job.move_call = job.folder_name

\* C32 divergence: under the configuration of the tests (no 'Important' rule)
\* the classification failed and the job ended without asking for a move: the
\* message stays where it was
C32_Witness ==
    \E j \in DOMAIN rjobs :
        /\ categories = config_tests
        /\ rjobs[j].analysed
        /\ rjobs[j].cls = Raises
        /\ rjobs[j].analysis = Fallback
        /\ rjobs[j].pc = "done"
        /\ rjobs[j].result = "finished"
        /\ rjobs[j].move_call = NoPath
        /\ rjobs[j].moves = 0
        /\ rjobs[j].task_calls = 0

\* The callers whose token request is in flight
Refreshing == {c \in Callers : auth[c].pc = "request"}

\* C33: when several jobs and the gateway need an access token while none is
\* cached or the cached one has expired, at most one token request is in
\* flight at any time (the other callers wait for it and use its result)
C33_OneRefreshInFlight == Cardinality(Refreshing) <= 1

\* C33 divergence: the cached token has expired and two callers have each sent
\* a token request of their own
C33_Witness ==
    /\ token_cache = "expired"
    /\ \E c, d \in Refreshing : c # d

\* Job j is a redelivery of the notification of job i: the same message, later
\* in the same webhook request (so it starts when job i has returned), its
\* time read no more than the window after that of job i
Redelivery(i, j) ==
    /\ i < j
    /\ jobs[i].req = jobs[j].req
    /\ SameMessage(jobs[i], jobs[j])
    /\ jobs[j].pc # "queued"
    /\ jobs[j].current_time - jobs[i].current_time <= DedupWindow

\* C34: a message id is recorded in the dedup cache before the message is
\* processed (a job that is in process_emails or has failed in it has its id in
\* the cache for as long as the window of its entry lasts), and the entry is not
\* removed when the processing fails; so a redelivery of the same notification
\* within 300 s after a failed job does not process the message
C34_RedeliveryAfterFailureSkipped ==
    \A i \in DOMAIN jobs :
        jobs[i].result = "process_failed" =>
          /\ clock - jobs[i].current_time <= DedupWindow
                => processed_cache[jobs[i].notification.id] # NoEntry
          /\ \A j \in DOMAIN jobs : Redelivery(i, j) => ~Passed(jobs[j])

\* C34 divergence: the job of a message failed in process_emails, and the
\* redelivery of the notification, no later than 300 s after it, got past the
\* dedup step: process_emails was called a second time for the message
C34_Witness ==
    \E i, j \in DOMAIN jobs :
        /\ jobs[i].result = "process_failed"
        /\ Redelivery(i, j)
        /\ jobs[j].result \in ProcessOutcomes
        /\ processCalls[jobs[j].notification.id] >= 2

\* The dedup step of job j completes in this step: the job is found a duplicate
\* or its id is inserted
DedupCompletes(j) ==
    /\ j \in DOMAIN jobs
    /\ \/ jobs[j].pc = "check" /\ jobs'[j].result = "duplicate"
       \/ jobs[j].pc = "insert" /\ jobs'[j].pc = "process"

\* C35: the dedup window is fixed from the first sighting: a duplicate hit
\* leaves the stored timestamp as it is, an entry is removed only when its age
\* is strictly greater than 300 s, and immediately after a dedup step
\* completes the cache holds no entry older than 300 s at the time of that step
C35_WindowFromFirstSighting ==
    [][\A j \in DOMAIN jobs :
          /\ (jobs[j].pc = "check" /\ jobs'[j].result = "duplicate")
                => processed_cache' = processed_cache
          /\ \A k \in MsgIds :
                (jobs[j].pc = "del" /\ jobs'[j].pc # "del"
                   /\ processed_cache[k] # NoEntry /\ processed_cache'[k] = NoEntry)
                  => jobs[j].current_time - processed_cache[k] > DedupWindow
          /\ DedupCompletes(j)
                => \A k \in MsgIds :
                      processed_cache'[k] # NoEntry
                        => jobs[j].current_time - processed_cache'[k] <= DedupWindow]_vars

\* C35 divergence: a job was skipped as a duplicate on an entry that, at the
\* time the job read, was older than 300 s
C35_Witness ==
    \E j \in DOMAIN jobs :
        /\ jobs[j].result = "duplicate"
        /\ processed_cache[jobs[j].notification.id] # NoEntry
        /\ jobs[j].current_time - processed_cache[jobs[j].notification.id] > DedupWindow

\* The step is taken by the job of an authenticated notification that carries
\* a message id and runs with the dependencies initialised
StepOfMessageJob ==
    \E j \in DOMAIN jobs :
        /\ jobs'[j] # jobs[j]
        /\ Authenticated(jobs[j].notification)
        /\ jobs[j].notification.id # NoId
        /\ processors

\* The step is the answer to an HTTP request, or the return of a job that has
\* no message id or finds the dependencies uninitialised
StepOutsideMessageJobs ==
    \/ nreq' # nreq
    \/ \E j \in DOMAIN jobs :
          jobs[j].pc = "queued" /\ jobs'[j].result \in {"uninitialized", "no_id"}

\* The step calls neither process_emails (the message, folder, task and model
\* operations) nor changes the mailbox
NoMessageOperation == processCalls' = processCalls /\ UNCHANGED mailVars

\* The step calls no subscription operation of the provider
NoSubscriptionOperation == renewCalls' = renewCalls /\ UNCHANGED providerVars

\* C36 as stated: the dedup cache changes only in the job of an authenticated
\* notification that carries a message id and runs with all dependencies
\* initialised; a handshake, a record with a wrong clientState (no job is made
\* for it), a notification without id, a job with uninitialised dependencies,
\* and the renewal and health endpoints leave the cache unchanged and call no
\* operation of the provider or of a model
C36_NoProviderCallOutsideJobs ==
    [][/\ processed_cache' # processed_cache => StepOfMessageJob
       /\ processCalls' # processCalls => StepOfMessageJob
       /\ \A j \in DOMAIN jobs' : Authenticated(jobs'[j].notification)
       /\ StepOutsideMessageJobs =>
             /\ processed_cache' = processed_cache
             /\ NoMessageOperation
             /\ NoSubscriptionOperation]_vars

\* C36 amended: as above, but the renewal endpoint, given the shared secret and
\* an initialised client, does call the provider: it lists and renews the
\* subscriptions (and calls nothing else)
C36_CacheOnlyByMessageJobs ==
    [][/\ processed_cache' # processed_cache => StepOfMessageJob
       /\ processCalls' # processCalls => StepOfMessageJob
       /\ \A j \in DOMAIN jobs' : Authenticated(jobs'[j].notification)
       /\ StepOutsideMessageJobs =>
             /\ processed_cache' = processed_cache
             /\ NoMessageOperation
             /\ (\/ NoSubscriptionOperation
                 \/ /\ lastReq'.endpoint = "renew"
                    /\ nreq' # nreq
                    /\ RenewDecision(lastReq'.token, processors) = "renew"
                    /\ renewCalls' = renewCalls + 1)]_vars

\* C36 witness: with an entry in the cache, requests were answered and the job
\* of a notification without message id returned; the renewal endpoint has
\* called the provider; the entry is the one the job of the message made
C36_Witness ==
    /\ renewCalls = 1
    /\ lastReq.endpoint = "renew"
    /\ \E j \in DOMAIN jobs : jobs[j].result = "no_id"
    /\ \E j \in DOMAIN jobs :
          /\ jobs[j].result \in ProcessOutcomes
          /\ processed_cache[jobs[j].notification.id] = jobs[j].current_time

\* C37: under any interleaving of background jobs the dedup step itself never
\* aborts a job: no job ends in the exception handler of the job before it
\* has called process_emails (a job that has returned was found a duplicate,
\* had no id or no dependencies, or went through process_emails)
C37_DedupNeverAborts ==
    \A j \in DOMAIN jobs :
        jobs[j].pc = "done" =>
            jobs[j].result \in {"uninitialized", "no_id", "duplicate"} \cup ProcessOutcomes

\* C37 divergence: the job of an authenticated notification was aborted inside
\* the dedup step, by an exception of the dictionary another job changed
\* meanwhile, and process_emails was not called by it
C37_Witness ==
    \E j \in DOMAIN jobs :
        /\ Authenticated(jobs[j].notification)
        /\ jobs[j].notification.id # NoId
        /\ jobs[j].result = "error"
        /\ \E i \in DOMAIN jobs : i # j /\ jobs[i].req # jobs[j].req

FailedCreates(job) == {i \in DOMAIN job.creates : ~job.creates[i].ok}

\* C39: folder resolution walks the path from the mailbox root one segment at
\* a time (the segments looked up are a prefix of the path, the folders asked
\* for are among them, in order) and stops at the first segment that can be
\* neither found nor created: that create request is the job's last, no
\* deeper segment is looked up, no move request is issued, move_email returns
\* false, and the folders created for the earlier segments remain
C39_ResolutionStopsAtFailure ==
    \A j \in DOMAIN rjobs :
        LET job == rjobs[j]
            n == Len(job.lookups)
        IN  /\ n <= Len(job.move_call)
            /\ job.lookups = SubSeq(job.move_call, 1, n)
            /\ \A i \in FailedCreates(job) :
                  /\ i = Len(job.creates)
                  /\ job.creates[i].name = job.move_call[n]
                  /\ job.pc \notin {"find", "create", "move"}
                  /\ job.moved = PyFalse
                  /\ job.moves = 0
                  /\ job.move_request = NoFolderId
                  /\ \A k \in 1 .. (i - 1) :
                        \E f \in DOMAIN folders :
                            folders[f].displayName = job.creates[k].name

\* C39 witness: on the path Inbox/Projects/DIA the folder Projects was
\* created and the folder DIA could not be; the walk ended there, Projects
\* is still in the mailbox and no move request was made
C39_Witness ==
    \E j \in DOMAIN rjobs :
        /\ rjobs[j].move_call = <<"Inbox", "Projects", "DIA">>
        /\ rjobs[j].lookups = <<"Inbox", "Projects", "DIA">>
        /\ rjobs[j].creates = << [name |-> "Projects", ok |-> TRUE],
                                 [name |-> "DIA", ok |-> FALSE] >>
        /\ \E f \in DOMAIN folders : folders[f].displayName = "Projects"
        /\ rjobs[j].moved = PyFalse
        /\ rjobs[j].moves = 0
        /\ rjobs[j].pc = "done"

====
